---- MODULE Spec2Model ----
(***************************************************************************)
(* Model of h3 (package h3): the Server lifecycle of src/server.go.        *)
(*                                                                         *)
(* A Server holds its options, the servlet list s.servs and the unbuffered *)
(* channel s.exit.  Server.Start validates the address, starts the         *)
(* servlets in order (rolling back on the first failure) and spawns two    *)
(* goroutines: the shutdown task, which waits on s.exit, and the serving   *)
(* task, which runs http.Server.ListenAndServe.  Server.Stop hands a       *)
(* fresh reply channel to the shutdown task and waits for its answer.      *)
(*                                                                         *)
(* Every call of Start and of Stop is a process of the model, identified   *)
(* by a call id; the goroutines a Start call spawns carry that call's id.  *)
(* Servlet Start/Stop, http.Server and net.SplitHostPort are collaborators *)
(* outside the repository: a servlet call may return nil or an error, a    *)
(* listen may succeed or fail, a request may take any time.                *)
(*                                                                         *)
(* The request path is modelled next to it: a Mux made by NewMux with its  *)
(* middleware chain m.pre (Use, Handle, ServeHTTP), and a Response made by *)
(* NewResponse with the calls a handler makes on it.  Spec is the          *)
(* lifecycle, SpecStartCtx the Start calls whose ctx ends, SpecMux the Mux *)
(* and SpecResponse the Response.                                          *)
(***************************************************************************)
EXTENDS Integers, Sequences, FiniteSets, TLC

----------------------------------------------------------------------------
(* Bounds of the model. *)

\* Components the application may pass to Server.Register.
MaxComponents == 4
\* Calls of Server.Start made during a run.
MaxStarts == 2
\* Calls of Server.Stop made during a run.
MaxStops == 2
\* Requests one transport engine accepts during a run.
MaxRequests == 1
\* Calls of Server.Register made after the first call of Server.Start.
MaxLateRegisters == 1
\* Servlet Stop calls that return an error during a run.
MaxStopErrors == 2

\* Middlewares the application may pass to Mux.Use.
MaxMiddlewares == 3
\* Calls of Mux.Use made during a run.
MaxUses == 3
\* Calls made on one Response during a run.
MaxCalls == 3
\* Length of the slice passed to one Response.Write.
MaxWriteLen == 4

Components == 1..MaxComponents
StartIds == 1..MaxStarts
StopIds == 1..MaxStops
Middlewares == 1..MaxMiddlewares

\* the middlewares that are a permission check: the handler they return
\* calls next for a request with an Authorization header and returns
\* without calling it for another
Guards == {MaxMiddlewares}

----------------------------------------------------------------------------
(* Values. *)

\* error values; the second field of a servlet error names the servlet
NoErr == <<"nil">>
Pending == <<"pending">>
StartErr(k) == <<"start", k>>
StopErr(k) == <<"stop", k>>
LnErr == <<"listener">>
CtxErr == <<"context">>
AddrErrMissingPort == <<"missing port in address">>
AddrErrTooManyColons == <<"too many colons in address">>

\* Options.Addr values, as sequences of characters: "", "h", ":::", ":p"
Addrs == { <<>>, <<"h">>, <<":", ":", ":">>, <<":", "p">> }

\* index of the last ':' of a, 0 when there is none
LastColon(a) ==
    LET S == {i \in 1..Len(a) : a[i] = ":"}
    IN IF S = {} THEN 0 ELSE CHOOSE i \in S : \A j \in S : j <= i

\* net.SplitHostPort(addr), for addresses without brackets: its error
SplitHostPortErr(a) ==
    LET i == LastColon(a)
    IN IF i = 0 THEN AddrErrMissingPort
       ELSE IF \E j \in 1..(i - 1) : a[j] = ":" THEN AddrErrTooManyColons
       ELSE NoErr

\* Component 2 is a plain component, the others also implement Servlet
CompIsServlet(c) == c # 2

\* The prefix of component c: "/1", "/2", ...
CompPrefix(c) == <<"/", ToString(c)>>

\* The pattern Mount registers for a prefix
\* MountPattern with every trailing "/" of the prefix removed
RECURSIVE MountPatternTrimsAll(_)
MountPatternTrimsAll(p) ==
    IF p = <<"/">> THEN p
    ELSE IF p[Len(p)] = "/" THEN MountPatternTrimsAll(SubSeq(p, 1, Len(p) - 1))
    ELSE p \o <<"/", "{path...}">>

MountPattern(p) ==
    IF p = <<"/">> THEN p
    ELSE (IF p[Len(p)] = "/" THEN SubSeq(p, 1, Len(p) - 1) ELSE p)
         \o <<"/", "{path...}">>

Reverse(s) == [i \in 1..Len(s) |-> s[Len(s) + 1 - i]]

\* a nil func value (the zero value of mux.pre)
NilFunc == <<"nil">>

\* the Muxes of a run, each made by NewMux: the application may mount the
\* second on the first
Muxes == {"root", "sub"}

\* patterns and paths are sequences of characters, a name counting as one:
\* the patterns the application passes to Handle ("/a", "/b" and the empty
\* pattern), the prefixes it passes to Mount ("", "/", "/p", "/p/") and the
\* paths of the requests served
Patterns == { <<"/", "a">>, <<>> }
Prefixes == { <<>>, <<"/">>, <<"/", "p">>, <<"/", "p", "/">> }
DeepPrefixes == { <<"/", "p", "/", "/">> }
Paths ==
    { <<"/", "a">>, <<"/", "c">>, <<"/", "p">>, <<"/", "p", "/">>,
      <<"/", "p", "/", "a">>, <<"/", "p", "/", "c">> }

\* the handlers the application passes to Handle: a function, a nil
\* http.Handler, a nil http.HandlerFunc (what HandleFunc makes of a nil func)
HandlerKinds == {"func", "nil", "nilFunc"}

\* no request has been served since the Muxes were last changed
NoReq == <<>>

\* no registration has been made since the last request or Use
NoCall == <<>>

\* the http.ResponseWriter a server hands to ServeHTTP, and a *response
\* around a writer
Sink == <<"sink">>
ResponseOf(w) == <<"response", w>>

\* net/http status codes
StatusOK == 200
StatusCreated == 201
StatusNotFound == 404

\* the optional interfaces of an http.ResponseWriter the Response forwards:
\* http.Flusher, http.Hijacker, http.Pusher
Capabilities == {"Flush", "Hijack", "Push"}

\* the codes handlers pass to WriteHeader
Codes == {StatusOK, StatusCreated, StatusNotFound}

\* the http.Handler values of a request: the *http.ServeMux m.mux, the handler
\* middleware(next) returned for m and next, and the http.HandlerFunc of
\* mux.Use that calls middleware(next) when it is served
Engine == <<"engine">>
Wrapped(m, next) == <<"mw", m, next>>
Deferred(m, next) == <<"lazy", m, next>>

----------------------------------------------------------------------------
VARIABLES
    addr,        \* s.opts.Addr
    servs,       \* s.servs: the servlet components, in registration order
    routes,      \* patterns registered on s.mux by Mount
    lateRegs,    \* number of Register calls made after the first Start call
    startPc,     \* per Start call: where the call is
    startN,      \* per Start call: length of the slice the range loop iterates
    startI,      \* per Start call: loop index i (1-based), then rollback index j
    startRes,    \* per Start call: the value returned
    startLog,    \* per Start call: the servlet calls it made, in order
    startCtx,    \* per Start call: index of the servlet during whose Start the
                 \* ctx argument became done (cancelled or expired), else 0
    taskPc,      \* per shutdown goroutine: where it is
    taskExit,    \* per shutdown goroutine: the Stop call whose channel it received
    taskN,       \* per shutdown goroutine: len(s.servs) when its loop began
    taskI,       \* per shutdown goroutine: loop index i (1-based)
    taskRes,     \* per shutdown goroutine: what server.Shutdown returned
    taskLog,     \* per shutdown goroutine: the servlet calls it made, in order
    lctxDone,    \* per Start call: lctx has been cancelled
    engState,    \* per http.Server: "none", "new", "listening", "closed"
    inShutdown,  \* per http.Server: Shutdown has been called
    lnErr,       \* per http.Server: what closing its listeners returned
    inflight,    \* per http.Server: requests being handled
    accepted,    \* per http.Server: requests accepted so far
    stopPc,      \* per Stop call: where the call is
    stopCtx,     \* per Stop call: the ctx argument is done (cancelled or expired)
    stopRes,     \* per Stop call: the value returned
    panicked,    \* the process died of log.Panicln in the serving goroutine
    pre,         \* per Mux: m.pre, NilFunc or the closure Use built, as
                 \* <<"closure", pre, middleware>> of its captured variables
    uses,        \* per Mux: the middlewares passed to Use, in call order
    handlers,    \* per Mux: the registrations on m.mux, as pairs of a pattern
                 \* and a handler
    reg,         \* the last Handle or Mount call and how it ended, or NoCall
    req,         \* the Mux and the path of the last request served, or NoReq
    token,       \* whether that request carried an Authorization header
    trace,       \* what happened while that request was served, in order
    resp,        \* a *response made by NewResponse(w): its fields status, size
                 \* and committed, and as field w the calls it has made on the
                 \* embedded http.ResponseWriter, in order
    respLog,     \* the calls made on that *response, in order
    sinkCaps     \* the optional interfaces the embedded writer of that
                 \* *response supports, as a subset of Capabilities

serverVars ==
    << addr, servs, routes, lateRegs, startPc, startN, startI, startRes,
       startLog, startCtx, taskPc, taskExit, taskN, taskI, taskRes, taskLog,
       lctxDone, engState, inShutdown, lnErr, inflight, accepted, stopPc,
       stopCtx, stopRes, panicked >>

regVars == << servs, routes, lateRegs >>
startVars == << startPc, startN, startI, startRes, startLog, startCtx >>
taskVars == << taskPc, taskExit, taskN, taskI, taskRes, taskLog, lctxDone >>
engVars == << engState, inShutdown, lnErr, inflight, accepted >>
stopVars == << stopPc, stopCtx, stopRes >>
muxVars == << pre, uses, handlers, reg, req, token, trace >>

\* the state of the request path, which the lifecycle never touches
respVars == << resp, respLog, sinkCaps >>
serveVars == << muxVars, respVars >>

vars == << serverVars, serveVars >>

\* NewResponse(w) for a w that is no Response: status 200, nothing written
NewResponse ==
    [status |-> StatusOK, size |-> 0, committed |-> FALSE, w |-> <<>>]

\* New(mux, Options{Addr: addr}): no servlet, a fresh unbuffered s.exit; a
\* Mux made by NewMux and a Response made by NewResponse
InitObjects ==
    /\ addr \in Addrs
    /\ servs = <<>>
    /\ routes = {}
    /\ lateRegs = 0
    /\ startPc = [c \in StartIds |-> "idle"]
    /\ startN = [c \in StartIds |-> 0]
    /\ startI = [c \in StartIds |-> 0]
    /\ startRes = [c \in StartIds |-> Pending]
    /\ startLog = [c \in StartIds |-> <<>>]
    /\ startCtx = [c \in StartIds |-> 0]
    /\ taskPc = [c \in StartIds |-> "none"]
    /\ taskExit = [c \in StartIds |-> 0]
    /\ taskN = [c \in StartIds |-> 0]
    /\ taskI = [c \in StartIds |-> 0]
    /\ taskRes = [c \in StartIds |-> Pending]
    /\ taskLog = [c \in StartIds |-> <<>>]
    /\ lctxDone = [c \in StartIds |-> FALSE]
    /\ engState = [c \in StartIds |-> "none"]
    /\ inShutdown = [c \in StartIds |-> FALSE]
    /\ lnErr = [c \in StartIds |-> Pending]
    /\ inflight = [c \in StartIds |-> 0]
    /\ accepted = [c \in StartIds |-> 0]
    /\ stopPc = [d \in StopIds |-> "idle"]
    /\ stopCtx = [d \in StopIds |-> FALSE]
    /\ stopRes = [d \in StopIds |-> Pending]
    /\ panicked = FALSE
    /\ pre = [mx \in Muxes |-> NilFunc]
    /\ uses = [mx \in Muxes |-> <<>>]
    /\ handlers = [mx \in Muxes |-> {}]
    /\ reg = NoCall
    /\ req = NoReq
    /\ token = TRUE
    /\ trace = <<>>
    /\ resp = NewResponse
    /\ respLog = <<>>

\* the lifecycle and the Mux never call the embedded writer of the Response:
\* it is a bare http.ResponseWriter
Init == InitObjects /\ sinkCaps = {}

\* The process runs: a goroutine that died of a panic ended it
Running == ~panicked

----------------------------------------------------------------------------
(* Server.Register *)

\* mux.Mount(pattern, sub) panics: empty pattern, or http.ServeMux refuses a
\* pattern that is already registered
MountPanics(p) == p = <<>> \/ MountPattern(p) \in routes

\* No goroutine is reading s.servs: Register is not safe for concurrent use
\* with the loops of Start and of the shutdown goroutine
NoServsReader ==
    /\ \A c \in StartIds : startPc[c] \in {"idle", "done"}
    /\ \A t \in StartIds : taskPc[t] \notin {"loop", "inStop"}

\* Components are interchangeable, so the application registers them in the
\* order of their numbers: c is the next new component, or one registered
\* before
NextComponent(c) == c <= Cardinality(routes) + 1

\* Start has been called
StartCalled == \E c \in StartIds : startPc[c] # "idle"

\* Appended with every component taken for a Servlet
AppendedTakesAll(ss, c) == Append(ss, c)

\* s.servs after Register(c): c is appended when it implements Servlet
Appended(ss, c) == IF CompIsServlet(c) THEN Append(ss, c) ELSE ss

\* s.Register(c): the router is mounted, then a servlet is appended; when
\* Mount panics the caller gets the panic and nothing is registered
Register(c) ==
    /\ Running
    /\ NoServsReader
    /\ NextComponent(c)
    /\ StartCalled => lateRegs < MaxLateRegisters
    /\ lateRegs' = IF StartCalled THEN lateRegs + 1 ELSE lateRegs
    /\ IF MountPanics(CompPrefix(c))
       THEN UNCHANGED << servs, routes >>
       ELSE /\ routes' = routes \cup {MountPattern(CompPrefix(c))}
            /\ servs' = Appended(servs, c)
    /\ UNCHANGED << serveVars,
                    addr, startVars, taskVars, engVars, stopVars, panicked >>

----------------------------------------------------------------------------
(* Servlets *)

\* number of entries of a log that are Stop calls that returned an error
RECURSIVE StopErrorsIn(_)
StopErrorsIn(log) ==
    IF log = <<>> THEN 0
    ELSE (IF Head(log)[1] = "Stop" /\ ~Head(log)[3] THEN 1 ELSE 0)
         + StopErrorsIn(Tail(log))

RECURSIVE SumOver(_, _)
SumOver(f, S) ==
    IF S = {} THEN 0
    ELSE LET x == CHOOSE y \in S : TRUE IN f[x] + SumOver(f, S \ {x})

\* number of servlet Stop calls that have returned an error
StopErrors ==
    SumOver([c \in StartIds |-> StopErrorsIn(startLog[c])
                                 + StopErrorsIn(taskLog[c])], StartIds)

\* the results a servlet's Stop may return now: nil (TRUE), an error (FALSE)
StopOutcomes == IF StopErrors < MaxStopErrors THEN BOOLEAN ELSE {TRUE}

----------------------------------------------------------------------------
(* Server.Start *)

\* AfterValidate with the servlet loop left out
AfterValidateSkipsServlets(n) == "spawn"

\* the range loop over n servlets is entered: its body runs, or with no
\* servlet the code after the loop
AfterValidate(n) == IF n >= 1 THEN "loop" ELSE "spawn"

\* The application calls Start from one goroutine: a call begins when the
\* calls before it have returned
NoStartInProgress(c) ==
    \A b \in StartIds :
        IF b < c THEN startPc[b] = "done" ELSE startPc[b] = "idle"

\* StartBegin with the two goroutines spawned before the address is
\* validated and the servlets are started
StartBeginSpawnsFirst(c) ==
    /\ Running
    /\ startPc[c] = "idle"
    /\ NoStartInProgress(c)
    /\ taskPc' = [taskPc EXCEPT ![c] = "wait"]
    /\ engState' = [engState EXCEPT ![c] = "new"]
    /\ IF SplitHostPortErr(addr) # NoErr
       THEN /\ startPc' = [startPc EXCEPT ![c] = "done"]
            /\ startRes' = [startRes EXCEPT ![c] = SplitHostPortErr(addr)]
            /\ UNCHANGED << startN, startI >>
       ELSE /\ startPc' = [startPc EXCEPT ![c] = AfterValidate(Len(servs))]
            /\ startN' = [startN EXCEPT ![c] = Len(servs)]
            /\ startI' = [startI EXCEPT ![c] = 1]
            /\ UNCHANGED startRes
    /\ UNCHANGED << serveVars,
                    addr, regVars, startLog, startCtx, taskExit, taskN, taskI,
                    taskRes, taskLog, lctxDone, inShutdown, lnErr, inflight,
                    accepted, stopVars, panicked >>

\* Start(ctx) is called: the address is validated, the range loop is entered
StartBegin(c) ==
    /\ Running
    /\ startPc[c] = "idle"
    /\ NoStartInProgress(c)
    /\ IF SplitHostPortErr(addr) # NoErr
       THEN /\ startPc' = [startPc EXCEPT ![c] = "done"]
            /\ startRes' = [startRes EXCEPT ![c] = SplitHostPortErr(addr)]
            /\ UNCHANGED << startN, startI >>
       ELSE /\ startPc' = [startPc EXCEPT ![c] = AfterValidate(Len(servs))]
            /\ startN' = [startN EXCEPT ![c] = Len(servs)]
            /\ startI' = [startI EXCEPT ![c] = 1]
            /\ UNCHANGED startRes
    /\ UNCHANGED << serveVars,
                    addr, regVars, startLog, startCtx, taskVars, engVars,
                    stopVars, panicked >>

\* serv.Start(ctx) is invoked on servlet i
ServletStartCall(c) ==
    /\ Running
    /\ startPc[c] = "loop"
    /\ startPc' = [startPc EXCEPT ![c] = "inStart"]
    /\ UNCHANGED << serveVars,
                    addr, regVars, startN, startI, startRes, startLog,
                    startCtx, taskVars, engVars, stopVars, panicked >>

\* the ctx given to Start is cancelled, or its deadline expires, while
\* serv.Start(ctx) runs on servlet i; Start itself never reads ctx, and the
\* servlet may return ctx.Err(), another error, or nil
StartCtxDone(c) ==
    /\ Running
    /\ startPc[c] = "inStart"
    /\ startCtx[c] = 0
    /\ startCtx' = [startCtx EXCEPT ![c] = startI[c]]
    /\ UNCHANGED << serveVars,
                    addr, regVars, startPc, startN, startI, startRes, startLog,
                    taskVars, engVars, stopVars, panicked >>

\* AfterServletStart with the rollback loop starting at j = i
AfterServletStartRollsBackSelf(i, n, ok) ==
    IF ok
    THEN [pc |-> IF i < n THEN "loop" ELSE "spawn", i |-> i + 1]
    ELSE [pc |-> "rollback", i |-> i]

\* AfterServletStart with the start error ignored: the loop goes on
AfterServletStartGoesOn(i, n, ok) ==
    [pc |-> IF i < n THEN "loop" ELSE "spawn", i |-> i + 1]

\* where a Start call goes, and its next index, when the Start of servlet i
\* of n has returned: on nil the next servlet, or the code after the loop; on
\* an error the rollback loop from j = i-1, or the return when j < 0 at once
AfterServletStart(i, n, ok) ==
    IF ok
    THEN [pc |-> IF i < n THEN "loop" ELSE "spawn", i |-> i + 1]
    ELSE [pc |-> IF i - 1 >= 1 THEN "rollback" ELSE "done", i |-> i - 1]

\* serv.Start(ctx) returns, nil (ok) or an error, which Start will return
ServletStartReturn(c, ok) ==
    /\ Running
    /\ startPc[c] = "inStart"
    /\ startLog' = [startLog EXCEPT
                      ![c] = Append(@, <<"Start", servs[startI[c]], ok>>)]
    /\ startPc' = [startPc EXCEPT
                     ![c] = AfterServletStart(startI[c], startN[c], ok).pc]
    /\ startI' = [startI EXCEPT
                    ![c] = AfterServletStart(startI[c], startN[c], ok).i]
    /\ startRes' = [startRes EXCEPT
                      ![c] = IF ok THEN @ ELSE StartErr(servs[startI[c]])]
    /\ UNCHANGED << serveVars,
                    addr, regVars, startN, startCtx, taskVars, engVars,
                    stopVars, panicked >>

\* rollback: s.servs[j].Stop() is invoked
RollbackStopCall(c) ==
    /\ Running
    /\ startPc[c] = "rollback"
    /\ startPc' = [startPc EXCEPT ![c] = "inRollbackStop"]
    /\ UNCHANGED << serveVars,
                    addr, regVars, startN, startI, startRes, startLog,
                    startCtx, taskVars, engVars, stopVars, panicked >>

\* RollbackResult with the stop error taking the place of the start error
RollbackResultLastError(err, stopErr) == stopErr

\* the value Start returns after a rollback in which servlet k's Stop
\* returned stopErr: the start error it already holds
RollbackResult(err, stopErr) == err

\* rollback: s.servs[j].Stop() returns, nil (ok) or an error that is logged
RollbackStopReturn(c, ok) ==
    /\ Running
    /\ startPc[c] = "inRollbackStop"
    /\ startLog' = [startLog EXCEPT
                      ![c] = Append(@, <<"Stop", servs[startI[c]], ok>>)]
    /\ startRes' = [startRes EXCEPT
                      ![c] = IF ok THEN @
                             ELSE RollbackResult(@, StopErr(servs[startI[c]]))]
    /\ startI' = [startI EXCEPT ![c] = @ - 1]
    /\ startPc' = [startPc EXCEPT
                     ![c] = IF startI[c] > 1 THEN "rollback" ELSE "done"]
    /\ UNCHANGED << serveVars,
                    addr, regVars, startN, startCtx, taskVars, engVars,
                    stopVars, panicked >>

\* every servlet started: lctx and the http.Server are made, the shutdown
\* goroutine and the serving goroutine are spawned, Start returns nil
StartSpawn(c) ==
    /\ Running
    /\ startPc[c] = "spawn"
    /\ startPc' = [startPc EXCEPT ![c] = "done"]
    /\ startRes' = [startRes EXCEPT ![c] = NoErr]
    /\ taskPc' = [taskPc EXCEPT ![c] = "wait"]
    /\ engState' = [engState EXCEPT ![c] = "new"]
    /\ UNCHANGED << serveVars,
                    addr, regVars, startN, startI, startLog, startCtx,
                    taskExit, taskN, taskI, taskRes, taskLog, lctxDone,
                    inShutdown, lnErr, inflight, accepted, stopVars, panicked >>

----------------------------------------------------------------------------
(* Server.Stop and the shutdown goroutine *)

\* Stop calls are numbered in the order in which they are made; they may
\* overlap
NextStopCall(d) == \A b \in StopIds : b < d => stopPc[b] # "idle"

\* Stop(ctx) is called; it makes its reply channel and blocks sending it on
\* s.exit
StopBegin(d) ==
    /\ Running
    /\ stopPc[d] = "idle"
    /\ NextStopCall(d)
    /\ stopPc' = [stopPc EXCEPT ![d] = "send"]
    /\ UNCHANGED << serveVars,
                    addr, regVars, startVars, taskVars, engVars, stopCtx,
                    stopRes, panicked >>

\* the ctx of a Stop call is cancelled, or its deadline expires, while the
\* transport engine is draining for it with a request in flight (Stop never
\* reads its ctx: a ctx that is done earlier or later leads to the same runs)
StopCtxDone(d) ==
    /\ Running
    /\ stopPc[d] = "recv"
    /\ ~stopCtx[d]
    /\ \E t \in StartIds :
          taskExit[t] = d /\ taskPc[t] = "drain" /\ inflight[t] > 0
    /\ stopCtx' = [stopCtx EXCEPT ![d] = TRUE]
    /\ UNCHANGED << serveVars,
                    addr, regVars, startVars, taskVars, engVars, stopPc,
                    stopRes, panicked >>

\* AfterStopped with the loop left before the servlet registered first
AfterStoppedLeavesFirst(i) == IF i >= 2 THEN "loop" ELSE "shutdown"

\* where the shutdown goroutine goes when servlets i..1 are left to stop
AfterStopped(i) == IF i >= 1 THEN "loop" ELSE "shutdown"

\* NextStopIndex with a Stop that returned an error called again
NextStopIndexRetries(i, ok) == IF ok THEN i - 1 ELSE i

\* NextStopIndex with the loop left at the first error
NextStopIndexBreaks(i, ok) == IF ok THEN i - 1 ELSE 0

\* the index the shutdown loop goes on to when the Stop of servlet i has
\* returned, nil (ok) or an error
NextStopIndex(i, ok) == i - 1

\* Handoff with s.exit a buffered channel: the send of Stop completes with no
\* goroutine to receive it
HandoffBuffered(d, t) ==
    /\ Running
    /\ stopPc[d] = "send"
    /\ taskPc[t] \in {"wait", "none"}
    /\ stopPc' = [stopPc EXCEPT ![d] = "recv"]
    /\ IF taskPc[t] = "none"
       THEN UNCHANGED << taskExit, taskN, taskI, taskPc >>
       ELSE /\ taskExit' = [taskExit EXCEPT ![t] = d]
            /\ taskN' = [taskN EXCEPT ![t] = Len(servs)]
            /\ taskI' = [taskI EXCEPT ![t] = Len(servs)]
            /\ taskPc' = [taskPc EXCEPT ![t] = AfterStopped(Len(servs))]
    /\ UNCHANGED << serveVars,
                    addr, regVars, startVars, taskRes, taskLog, lctxDone,
                    engVars, stopCtx, stopRes, panicked >>

\* exit := <-s.exit meets s.exit <- exit: the goroutine of Start call t takes
\* the reply channel of Stop call d and enters its loop at i = len(s.servs)-1
Handoff(d, t) ==
    /\ Running
    /\ stopPc[d] = "send"
    /\ taskPc[t] = "wait"
    /\ stopPc' = [stopPc EXCEPT ![d] = "recv"]
    /\ taskExit' = [taskExit EXCEPT ![t] = d]
    /\ taskN' = [taskN EXCEPT ![t] = Len(servs)]
    /\ taskI' = [taskI EXCEPT ![t] = Len(servs)]
    /\ taskPc' = [taskPc EXCEPT ![t] = AfterStopped(Len(servs))]
    /\ UNCHANGED << serveVars,
                    addr, regVars, startVars, taskRes, taskLog, lctxDone,
                    engVars, stopCtx, stopRes, panicked >>

\* shutdown loop: s.servs[i].Stop() is invoked
TaskStopCall(t) ==
    /\ Running
    /\ taskPc[t] = "loop"
    /\ taskPc' = [taskPc EXCEPT ![t] = "inStop"]
    /\ UNCHANGED << serveVars,
                    addr, regVars, startVars, taskExit, taskN, taskI, taskRes,
                    taskLog, lctxDone, engVars, stopVars, panicked >>

\* shutdown loop: s.servs[i].Stop() returns, nil (ok) or an error that is
\* logged; the loop goes on to i-1
TaskStopReturn(t, ok) ==
    /\ Running
    /\ taskPc[t] = "inStop"
    /\ taskLog' = [taskLog EXCEPT
                     ![t] = Append(@, <<"Stop", servs[taskI[t]], ok>>)]
    /\ taskI' = [taskI EXCEPT ![t] = NextStopIndex(@, ok)]
    /\ taskPc' = [taskPc EXCEPT
                    ![t] = AfterStopped(NextStopIndex(taskI[t], ok))]
    /\ UNCHANGED << serveVars,
                    addr, regVars, startVars, taskExit, taskN, taskRes,
                    lctxDone, engVars, stopVars, panicked >>

\* ListenersClosed with a listening engine left listening
ListenersClosedKeepsListening(st) == st

\* the state of an engine once Shutdown has closed its listeners
ListenersClosed(st) == IF st = "listening" THEN "closed" ELSE st

\* server.Shutdown(lctx) begins: the server is marked as shutting down and
\* its listeners are closed, which returns nil or an error
ShutdownBegin(t, closeOk) ==
    /\ Running
    /\ taskPc[t] = "shutdown"
    /\ taskPc' = [taskPc EXCEPT ![t] = "drain"]
    /\ inShutdown' = [inShutdown EXCEPT ![t] = TRUE]
    /\ lnErr' = [lnErr EXCEPT
                   ![t] = IF engState[t] = "listening" /\ ~closeOk
                          THEN LnErr ELSE NoErr]
    /\ engState' = [engState EXCEPT ![t] = ListenersClosed(@)]
    /\ UNCHANGED << serveVars,
                    addr, regVars, startVars, taskExit, taskN, taskI, taskRes,
                    taskLog, lctxDone, inflight, accepted, stopVars,
                    panicked >>

\* the context server.Shutdown is given is done: it is lctx
ShutdownCtxDone(t) == lctxDone[t]

\* ShutdownCanReturn with no wait for the busy connections
ShutdownCanReturnAtOnce(t) == TRUE

\* server.Shutdown can return: no connection is busy, or its context is done
ShutdownCanReturn(t) == inflight[t] = 0 \/ ShutdownCtxDone(t)

\* server.Shutdown(lctx) returns: the listener error once every connection
\* is idle, else the context's error once the context is done
ShutdownReturn(t) ==
    /\ Running
    /\ taskPc[t] = "drain"
    /\ ShutdownCanReturn(t)
    /\ taskRes' = [taskRes EXCEPT
                     ![t] = IF inflight[t] = 0 THEN lnErr[t] ELSE CtxErr]
    /\ taskPc' = [taskPc EXCEPT ![t] = "reply"]
    /\ UNCHANGED << serveVars,
                    addr, regVars, startVars, taskExit, taskN, taskI, taskLog,
                    lctxDone, engVars, stopVars, panicked >>

\* ReplyValue with the first servlet stop error sent when there is one
ReplyValueFirstError(t) ==
    LET F == {i \in 1..Len(taskLog[t]) : ~taskLog[t][i][3]}
    IN IF F = {} THEN taskRes[t]
       ELSE StopErr(taskLog[t][CHOOSE i \in F : \A j \in F : i <= j][2])

\* the value the shutdown goroutine sends on the reply channel
ReplyValue(t) == taskRes[t]

\* AfterReply with the goroutine going back to wait on s.exit
AfterReplyWaitsAgain == "wait"

\* where the shutdown goroutine goes after its reply: it ends
AfterReply == "done"

\* exit <- server.Shutdown(lctx) meets return <-exit: Stop call d returns the
\* value; the goroutine ends and its deferred cancel() ends lctx
Reply(t, d) ==
    /\ Running
    /\ taskPc[t] = "reply"
    /\ taskExit[t] = d
    /\ stopPc[d] = "recv"
    /\ stopRes' = [stopRes EXCEPT ![d] = ReplyValue(t)]
    /\ stopPc' = [stopPc EXCEPT ![d] = "done"]
    /\ taskPc' = [taskPc EXCEPT ![t] = AfterReply]
    /\ lctxDone' = [lctxDone EXCEPT ![t] = TRUE]
    /\ UNCHANGED << serveVars,
                    addr, regVars, startVars, taskExit, taskN, taskI, taskRes,
                    taskLog, engVars, stopCtx, panicked >>

----------------------------------------------------------------------------
(* The serving goroutine and the transport engine (net/http) *)

\* opts.Addr is taken: another http.Server of this Server listens on it
AddrInUse(e) == \E o \in StartIds : o # e /\ engState[o] = "listening"

\* ListenAndServe with the error of a failed listen handed to the Start call
\* as its result, and no panic
ListenAndServeReportsToStart(e, listenOk) ==
    /\ Running
    /\ engState[e] = "new"
    /\ IF inShutdown[e]
       THEN /\ engState' = [engState EXCEPT ![e] = "closed"]
            /\ UNCHANGED startRes
       ELSE IF listenOk /\ ~AddrInUse(e)
       THEN /\ engState' = [engState EXCEPT ![e] = "listening"]
            /\ UNCHANGED startRes
       ELSE /\ engState' = [engState EXCEPT ![e] = "closed"]
            /\ startRes' = [startRes EXCEPT ![e] = LnErr]
    /\ UNCHANGED << serveVars,
                    addr, regVars, startPc, startN, startI, startLog,
                    startCtx, taskVars, inShutdown, lnErr, inflight,
                    accepted, stopVars, panicked >>

\* server.ListenAndServe() in its goroutine: ErrServerClosed when Shutdown
\* came first; else it listens on opts.Addr, which fails when the address is
\* in use and may fail for reasons of the host, and a listen error goes to
\* log.Panicln
ListenAndServe(e, listenOk) ==
    /\ Running
    /\ engState[e] = "new"
    /\ IF inShutdown[e]
       THEN /\ engState' = [engState EXCEPT ![e] = "closed"]
            /\ UNCHANGED panicked
       ELSE IF listenOk /\ ~AddrInUse(e)
       THEN /\ engState' = [engState EXCEPT ![e] = "listening"]
            /\ UNCHANGED panicked
       ELSE /\ engState' = [engState EXCEPT ![e] = "closed"]
            /\ panicked' = TRUE
    /\ UNCHANGED << serveVars,
                    addr, regVars, startVars, taskVars, inShutdown, lnErr,
                    inflight, accepted, stopVars >>

\* a listening engine accepts a request and runs its handler
Accept(e) ==
    /\ Running
    /\ engState[e] = "listening"
    /\ accepted[e] < MaxRequests
    /\ accepted' = [accepted EXCEPT ![e] = @ + 1]
    /\ inflight' = [inflight EXCEPT ![e] = @ + 1]
    /\ UNCHANGED << serveVars,
                    addr, regVars, startVars, taskVars, engState, inShutdown,
                    lnErr, stopVars, panicked >>

\* the handler of a request returns
RequestDone(e) ==
    /\ Running
    /\ inflight[e] > 0
    /\ inflight' = [inflight EXCEPT ![e] = @ - 1]
    /\ UNCHANGED << serveVars,
                    addr, regVars, startVars, taskVars, engState, inShutdown,
                    lnErr, accepted, stopVars, panicked >>

----------------------------------------------------------------------------
(* Mux: Use, Handle and ServeHTTP of a Mux made by NewMux *)

\* the value mux.Use(middleware) assigns to m.pre: a closure over the old
\* m.pre and the middleware
UseClosure(p, m) == <<"closure", p, m>>

\* ApplyPre with each new middleware called on the result of the chain built
\* before it
RECURSIVE ApplyPreNewestOutside(_, _)
ApplyPreNewestOutside(c, next) ==
    Wrapped(c[3], IF c[2] # NilFunc
                  THEN ApplyPreNewestOutside(c[2], next) ELSE next)

\* c(next) for a closure c of Use: when the captured pre is not nil, pre
\* called on a HandlerFunc that defers middleware(next); for the first
\* middleware, middleware(next)
RECURSIVE ApplyPre(_, _)
ApplyPre(c, next) ==
    IF c[2] # NilFunc
    THEN ApplyPre(c[2], Deferred(c[3], next))
    ELSE Wrapped(c[3], next)

\* the middleware calls made when a handler is built, in order: the argument
\* of a call is built before the call
RECURSIVE BuildCalls(_)
BuildCalls(h) ==
    IF h[1] = "mw" THEN BuildCalls(h[3]) \o << <<"make", h[2]>> >> ELSE <<>>

\* ServeHandler with a middleware put in front of m.mux when m.pre is nil
ServeHandlerDefaultMiddleware(p) ==
    IF p # NilFunc THEN ApplyPre(p, Engine) ELSE Wrapped(1, Engine)

\* the handler mux.ServeHTTP serves a request with: m.pre(m.mux), or m.mux
\* itself when m.pre is nil
ServeHandler(p) == IF p # NilFunc THEN ApplyPre(p, Engine) ELSE Engine

\* NewResponseOf with a new wrapper made around every writer
NewResponseOfAlwaysWraps(w) == ResponseOf(w)

\* NewResponse(w): w itself when it is a Response, else a new *response
\* around it
NewResponseOf(w) == IF w[1] = "response" THEN w ELSE ResponseOf(w)

\* strings.HasPrefix and strings.TrimPrefix
HasPrefix(str, pfx) ==
    Len(str) >= Len(pfx) /\ SubSeq(str, 1, Len(pfx)) = pfx

TrimPrefix(str, pfx) ==
    IF HasPrefix(str, pfx) THEN SubSeq(str, Len(pfx) + 1, Len(str)) ELSE str

\* a pattern of http.ServeMux that ends in the wildcard {path...}
IsSubtree(pat) == pat # <<>> /\ pat[Len(pat)] = "{path...}"

\* http.ServeMux: the pattern matches the path.  "/" matches every path,
\* "X/{path...}" the paths that begin with "X/", another pattern itself
Matches(pat, path) ==
    IF pat = <<"/">> THEN TRUE
    ELSE IF IsSubtree(pat)
    THEN HasPrefix(path, SubSeq(pat, 1, Len(pat) - 1))
    ELSE pat = path

\* http.ServeMux (exactMatch): the match is exact, its wildcard matching the
\* empty string if it has one
ExactlyMatches(pat, path) ==
    /\ Matches(pat, path)
    /\ pat = <<"/">> => path = <<"/">>
    /\ IsSubtree(pat) => path = SubSeq(pat, 1, Len(pat) - 1)

\* http.ServeMux: pattern a is more specific than b, the paths it matches
\* being some of those b matches
MoreSpecific(a, b) ==
    /\ a # b
    /\ IF b = <<"/">> THEN TRUE
       ELSE IF IsSubtree(b)
       THEN Matches(b, IF IsSubtree(a) THEN SubSeq(a, 1, Len(a) - 1) ELSE a)
       ELSE FALSE

\* the registrations of hs that match the path, and the one that wins
Matching(hs, path) == {r \in hs : Matches(r[1], path)}

Best(hs, path) ==
    CHOOSE r \in Matching(hs, path) :
        \A q \in Matching(hs, path) : q = r \/ MoreSpecific(r[1], q[1])

\* http.ServeMux finds the handler of a request: the most specific
\* registration that matches; a redirect to path + "/" when that has an exact
\* match and the path has none; NotFound when nothing matches
Resolve(hs, path) ==
    LET exact(q) == /\ Matching(hs, q) # {}
                    /\ ExactlyMatches(Best(hs, q)[1], q)
    IN IF /\ ~exact(path)
          /\ path[Len(path)] # "/"
          /\ exact(path \o <<"/">>)
       THEN [kind |-> "redirect", route |-> <<>>]
       ELSE IF Matching(hs, path) = {}
       THEN [kind |-> "notfound", route |-> <<>>]
       ELSE [kind |-> "route", route |-> Best(hs, path)]

\* m.ServeHTTP(w, r) on Mux mx for a request of the given path: what happens,
\* in order.  The writer is wrapped by NewResponse, the middleware chain is
\* built around m.mux, the result serves the request
RECURSIVE MuxServe(_, _, _, _)

\* GuardDenies with next called whatever the request carries
GuardDeniesNever(m, tok) == FALSE

\* the handler of middleware m returns without calling next: m is a
\* permission check and the request has no Authorization header
GuardDenies(m, tok) == m \in Guards /\ ~tok

\* h.ServeHTTP(w, r) for a handler of the chain of Mux mx.  The handler a
\* middleware returned marks its entry, serves next and marks its exit, or,
\* when it is a permission check that fails, returns after its entry; m.mux
\* runs the handler it finds: a function of the application, a Mux mounted at
\* "/", or http.StripPrefix(prefix, sub) of a Mux mounted at a prefix, which
\* serves NotFound when the path does not begin with the prefix
RECURSIVE Serve(_, _, _, _, _)
Serve(h, mx, w, path, tok) ==
    IF h[1] = "lazy"
    THEN << <<"make", h[2]>> >>
           \o Serve(Wrapped(h[2], h[3]), mx, w, path, tok)
    ELSE IF h[1] = "mw" /\ GuardDenies(h[2], tok)
    THEN << <<"pre", h[2]>>, <<"deny", h[2]>> >>
    ELSE IF h[1] = "mw"
    THEN << <<"pre", h[2]>> >> \o Serve(h[3], mx, w, path, tok)
                               \o << <<"post", h[2]>> >>
    ELSE LET r == Resolve(handlers[mx], path)
             pat == r.route[1]
             target == r.route[2]
         IN IF r.kind # "route" THEN << <<r.kind, mx, path>> >>
            ELSE IF target[1] = "func"
            THEN << <<"handler", mx, pat, path, w>> >>
            ELSE IF target[1] = "mux" THEN MuxServe(target[2], w, path, tok)
            ELSE IF Len(TrimPrefix(path, target[2])) < Len(path)
            THEN MuxServe(target[3], w, TrimPrefix(path, target[2]), tok)
            ELSE << <<"notfound", mx, path>> >>

\* MuxServe with the middlewares of a Mux left out when the writer it is
\* given is a Response already, as it is for a mounted Mux
MuxServeBareWhenMounted(mx, w, path, tok) ==
    IF NewResponseOf(w) # w
    THEN << <<"wrap", mx, w>> >>
           \o BuildCalls(ServeHandler(pre[mx]))
           \o Serve(ServeHandler(pre[mx]), mx, NewResponseOf(w), path, tok)
    ELSE Serve(Engine, mx, w, path, tok)

\* MuxServe with the middlewares applied to the registered routes only: a
\* request no pattern matches goes to m.mux as it is
MuxServeBareWhenUnmatched(mx, w, path, tok) ==
    (IF NewResponseOf(w) # w THEN << <<"wrap", mx, w>> >> ELSE <<>>)
      \o (IF Resolve(handlers[mx], path).kind = "route"
          THEN BuildCalls(ServeHandler(pre[mx]))
                 \o Serve(ServeHandler(pre[mx]), mx, NewResponseOf(w), path,
                          tok)
          ELSE Serve(Engine, mx, NewResponseOf(w), path, tok))

MuxServe(mx, w, path, tok) ==
    (IF NewResponseOf(w) # w THEN << <<"wrap", mx, w>> >> ELSE <<>>)
      \o BuildCalls(ServeHandler(pre[mx]))
      \o Serve(ServeHandler(pre[mx]), mx, NewResponseOf(w), path, tok)

\* RegisterErr with a nil http.HandlerFunc taken for a handler
RegisterErrAcceptsNilFunc(pat, kind) ==
    IF pat = <<>> THEN <<"h3: invalid pattern">>
    ELSE IF kind = "nil" THEN <<"h3: nil handler">>
    ELSE NoErr

\* mux.registerErr: the error it returns before it calls m.mux.Handle
RegisterErr(pat, kind) ==
    IF pat = <<>> THEN <<"h3: invalid pattern">>
    ELSE IF kind = "nil" THEN <<"h3: nil handler">>
    ELSE IF kind = "nilFunc" THEN <<"h3: nil handler">>
    ELSE NoErr

\* how mux.register ends: it panics with the error of registerErr, or in
\* m.mux.Handle when http.ServeMux has the pattern already; else the handler
\* is registered
RegisterOutcome(hs, pat, kind) ==
    IF RegisterErr(pat, kind) # NoErr THEN <<"panic", RegisterErr(pat, kind)>>
    ELSE IF \E r \in hs : r[1] = pat THEN <<"panic", <<"conflict">> >>
    ELSE <<"ok", NoErr>>

\* the registrations of a Mux after mux.register
Registered(hs, pat, kind, target) ==
    IF RegisterOutcome(hs, pat, kind)[1] = "ok"
    THEN hs \cup {<<pat, target>>} ELSE hs

\* m.Use(middleware) on Mux mx
Use(mx, m) ==
    /\ SumOver([x \in Muxes |-> Len(uses[x])], Muxes) < MaxUses
    /\ pre' = [pre EXCEPT ![mx] = UseClosure(@, m)]
    /\ uses' = [uses EXCEPT ![mx] = Append(@, m)]
    /\ reg' = NoCall
    /\ req' = NoReq
    /\ token' = TRUE
    /\ trace' = <<>>
    /\ UNCHANGED << serverVars, respVars, handlers >>

\* m.Handle(pattern, handler) on Mux mx, or m.HandleFunc(pattern, f), which
\* registers http.HandlerFunc(f)
Handle(mx, pat, kind) ==
    /\ handlers' = [handlers EXCEPT
                      ![mx] = Registered(@, pat, kind, <<"func">>)]
    /\ reg' = <<"Handle", mx, pat, kind,
                 RegisterOutcome(handlers[mx], pat, kind)>>
    /\ req' = NoReq
    /\ token' = TRUE
    /\ trace' = <<>>
    /\ UNCHANGED << serverVars, respVars, pre, uses >>

\* MountCall with the empty prefix taken for "/"
MountCallEmptyIsRoot(prefix, sub) ==
    IF prefix = <<>> \/ prefix = <<"/">>
    THEN [panic |-> FALSE, pat |-> <<"/">>, target |-> <<"mux", sub>>]
    ELSE [panic |-> FALSE, pat |-> MountPattern(prefix),
          target |-> <<"strip", SubSeq(MountPattern(prefix), 1,
                                       Len(MountPattern(prefix)) - 2), sub>>]

\* MountCall with the sub Mux registered as it is, no prefix stripped
MountCallNoStrip(prefix, sub) ==
    IF prefix = <<>>
    THEN [panic |-> TRUE, pat |-> <<>>, target |-> <<>>]
    ELSE IF prefix = <<"/">>
    THEN [panic |-> FALSE, pat |-> <<"/">>, target |-> <<"mux", sub>>]
    ELSE [panic |-> FALSE, pat |-> MountPattern(prefix),
          target |-> <<"mux", sub>>]

\* m.Mount(pattern, sub) up to its call of register: it panics on the empty
\* pattern; "/" registers sub itself at "/"; another pattern, less one
\* trailing "/", registers http.StripPrefix(pattern, sub) at
\* pattern + "/{path...}"
MountCall(prefix, sub) ==
    IF prefix = <<>>
    THEN [panic |-> TRUE, pat |-> <<>>, target |-> <<>>]
    ELSE IF prefix = <<"/">>
    THEN [panic |-> FALSE, pat |-> <<"/">>, target |-> <<"mux", sub>>]
    ELSE [panic |-> FALSE, pat |-> MountPattern(prefix),
          target |-> <<"strip", SubSeq(MountPattern(prefix), 1,
                                       Len(MountPattern(prefix)) - 2), sub>>]

\* m.Mount(prefix, sub) on Mux mx
Mount(mx, prefix, sub) ==
    /\ mx = "root"
    /\ sub = "sub"
    /\ LET c == MountCall(prefix, sub)
       IN IF c.panic
          THEN /\ reg' = <<"Mount", mx, prefix, "mux",
                           <<"panic", <<"h3: invalid pattern">> >> >>
               /\ UNCHANGED handlers
          ELSE /\ reg' = <<"Mount", mx, prefix, "mux",
                           RegisterOutcome(handlers[mx], c.pat, "func")>>
               /\ handlers' = [handlers EXCEPT
                                 ![mx] = Registered(@, c.pat, "func",
                                                    c.target)]
    /\ req' = NoReq
    /\ token' = TRUE
    /\ trace' = <<>>
    /\ UNCHANGED << serverVars, respVars, pre, uses >>

\* m.ServeHTTP(w, r) on Mux mx for a request of the given path, with an
\* Authorization header or without, from the call to its return
ServeHTTP(mx, path, tok) ==
    /\ req' = <<mx, path>>
    /\ token' = tok
    /\ trace' = MuxServe(mx, Sink, path, tok)
    /\ reg' = NoCall
    /\ UNCHANGED << serverVars, respVars, pre, uses, handlers >>

----------------------------------------------------------------------------
(* Response: the wrapper NewResponse puts around an http.ResponseWriter *)

\* WriteHeaderOn with the code recorded and forwarded on every call
WriteHeaderOnOverwrites(r, code) ==
    [r EXCEPT !.status = code,
              !.committed = TRUE,
              !.w = Append(@, <<"WriteHeader", code>>)]

\* WriteHeaderOn with 200 recorded whatever code is forwarded
WriteHeaderOnRecordsOK(r, code) ==
    IF r.committed THEN r
    ELSE [r EXCEPT !.status = StatusOK,
                   !.committed = TRUE,
                   !.w = Append(@, <<"WriteHeader", code>>)]

\* WriteHeaderOn with the call forwarded to the embedded writer when the
\* response is committed already
WriteHeaderOnForwardsLate(r, code) ==
    IF r.committed THEN [r EXCEPT !.w = Append(@, <<"WriteHeader", code>>)]
    ELSE [r EXCEPT !.status = code,
                   !.committed = TRUE,
                   !.w = Append(@, <<"WriteHeader", code>>)]

\* r.WriteHeader(code): ignored (and logged) once committed; else the code is
\* recorded, the response committed and the call forwarded
WriteHeaderOn(r, code) ==
    IF r.committed THEN r
    ELSE [r EXCEPT !.status = code,
                   !.committed = TRUE,
                   !.w = Append(@, <<"WriteHeader", code>>)]

\* ImplicitHeader with the uncommitted response left as it is
ImplicitHeaderNone(r) == r

\* the head of r.Write: an uncommitted response gets WriteHeader(r.status),
\* with status 0 replaced by 200 first
ImplicitHeader(r) ==
    IF ~r.committed
    THEN WriteHeaderOn(
             [r EXCEPT !.status = IF @ = 0 THEN StatusOK ELSE @],
             IF r.status = 0 THEN StatusOK ELSE r.status)
    ELSE r

\* Counted with the length of the slice in place of the count returned
CountedRequested(len, n) == len

\* what r.Write adds to r.size after the embedded Write returned n for a
\* slice of length len
Counted(len, n) == n

\* WriteOn with the slice forwarded before the implicit WriteHeader
WriteOnBodyFirst(r, len, n) ==
    LET b == [r EXCEPT !.w = Append(@, <<"Write", len, n>>),
                       !.size = @ + Counted(len, n)]
    IN ImplicitHeader(b)

\* r.Write(p) with len(p) = len, the embedded Write returning n: the implicit
\* header, the forwarded call, the count added to size
WriteOn(r, len, n) ==
    LET h == ImplicitHeader(r)
    IN [h EXCEPT !.w = Append(@, <<"Write", len, n>>),
                 !.size = @ + Counted(len, n)]

\* a handler calls WriteHeader(code) on the Response
WriteHeader(code) ==
    /\ Len(respLog) < MaxCalls
    /\ resp' = WriteHeaderOn(resp, code)
    /\ respLog' = Append(respLog, <<"WriteHeader", code>>)
    /\ UNCHANGED << serverVars, muxVars, sinkCaps >>

\* a handler calls Write(p) on the Response; the embedded writer takes n of
\* the len(p) bytes and, as io.Writer requires, returns an error when n is
\* less; it may return an error in any case
Write(len, n, err) ==
    /\ Len(respLog) < MaxCalls
    /\ n <= len
    /\ n < len => err
    /\ resp' = WriteOn(resp, len, n)
    /\ respLog' = Append(respLog, <<"Write", len, n, err>>)
    /\ UNCHANGED << serverVars, muxVars, sinkCaps >>

\* CapabilityOutcome with an error returned for every unsupported call
CapabilityOutcomeAllErrors(op, caps) ==
    IF op \in caps THEN "forwarded" ELSE "error"

\* what r.Flush(), r.Hijack() and r.Push(target, opts) do on an embedded
\* writer that supports caps: the call is forwarded; without support Flush
\* panics (ErrNotSupported from the ResponseController), Hijack returns the
\* ResponseController's error, Push returns an error of its own
CapabilityOutcome(op, caps) ==
    IF op \in caps THEN "forwarded"
    ELSE IF op = "Flush" THEN "panic" ELSE "error"

\* PassthroughOn with a forwarded Flush marking the response committed
PassthroughOnFlushCommits(r, op, caps) ==
    IF CapabilityOutcome(op, caps) = "forwarded"
    THEN [r EXCEPT !.w = Append(@, <<op>>),
                   !.committed = IF op = "Flush" THEN TRUE ELSE @]
    ELSE r

\* the Response after r.Flush(), r.Hijack() or r.Push(target, opts): no field
\* is written; the embedded writer is called when it supports the call
PassthroughOn(r, op, caps) ==
    IF CapabilityOutcome(op, caps) = "forwarded"
    THEN [r EXCEPT !.w = Append(@, <<op>>)]
    ELSE r

\* a handler calls Flush, Hijack or Push
Passthrough(op) ==
    /\ Len(respLog) < MaxCalls
    /\ resp' = PassthroughOn(resp, op, sinkCaps)
    /\ respLog' = Append(respLog, <<op, CapabilityOutcome(op, sinkCaps)>>)
    /\ UNCHANGED << serverVars, muxVars, sinkCaps >>

----------------------------------------------------------------------------
(* The specification *)

Next ==
    \/ \E c \in Components : Register(c)
    \/ \E c \in StartIds : StartBegin(c)
    \/ \E c \in StartIds : ServletStartCall(c)
    \/ \E c \in StartIds, ok \in BOOLEAN : ServletStartReturn(c, ok)
    \/ \E c \in StartIds : RollbackStopCall(c)
    \/ \E c \in StartIds, ok \in StopOutcomes : RollbackStopReturn(c, ok)
    \/ \E c \in StartIds : StartSpawn(c)
    \/ \E d \in StopIds : StopBegin(d)
    \/ \E d \in StopIds : StopCtxDone(d)
    \/ \E d \in StopIds, t \in StartIds : Handoff(d, t)
    \/ \E t \in StartIds : TaskStopCall(t)
    \/ \E t \in StartIds, ok \in StopOutcomes : TaskStopReturn(t, ok)
    \/ \E t \in StartIds, closeOk \in BOOLEAN : ShutdownBegin(t, closeOk)
    \/ \E t \in StartIds : ShutdownReturn(t)
    \/ \E t \in StartIds, d \in StopIds : Reply(t, d)
    \/ \E e \in StartIds, listenOk \in BOOLEAN : ListenAndServe(e, listenOk)
    \/ \E e \in StartIds : Accept(e)
    \/ \E e \in StartIds : RequestDone(e)

\* runs in which the ctx of every Start call outlives the call
Spec == Init /\ [][Next]_vars

\* Start calls whose ctx may end while a servlet starts, with no call of Stop
NextStartCtx ==
    \/ \E c \in Components : Register(c)
    \/ \E c \in StartIds : StartBegin(c)
    \/ \E c \in StartIds : ServletStartCall(c)
    \/ \E c \in StartIds : StartCtxDone(c)
    \/ \E c \in StartIds, ok \in BOOLEAN : ServletStartReturn(c, ok)
    \/ \E c \in StartIds : RollbackStopCall(c)
    \/ \E c \in StartIds, ok \in StopOutcomes : RollbackStopReturn(c, ok)
    \/ \E c \in StartIds : StartSpawn(c)
    \/ \E e \in StartIds, listenOk \in BOOLEAN : ListenAndServe(e, listenOk)
    \/ \E e \in StartIds : Accept(e)
    \/ \E e \in StartIds : RequestDone(e)

SpecStartCtx == Init /\ [][NextStartCtx]_vars

\* a Mux on its own: middlewares and handlers are registered, requests served
NextMux ==
    \/ \E mx \in Muxes, m \in Middlewares : Use(mx, m)
    \/ \E mx \in Muxes, pat \in Patterns, kind \in HandlerKinds :
          Handle(mx, pat, kind)
    \/ \E mx \in Muxes, prefix \in Prefixes, sub \in Muxes :
          Mount(mx, prefix, sub)
    \/ \E mx \in Muxes, path \in Paths : ServeHTTP(mx, path, TRUE)

\* the request path on its own: the Server of the run is never started
InitServing == Init /\ addr = <<":", "p">>

SpecMux == InitServing /\ [][NextMux]_vars

\* Muxes with a permission check among the middlewares, serving requests
\* without an Authorization header (SpecMux serves those with one)
NextGuard ==
    \/ \E mx \in Muxes, m \in Middlewares : Use(mx, m)
    \/ \E mx \in Muxes, pat \in Patterns, kind \in HandlerKinds :
          Handle(mx, pat, kind)
    \/ \E mx \in Muxes, prefix \in Prefixes, sub \in Muxes :
          Mount(mx, prefix, sub)
    \/ \E mx \in Muxes, path \in Paths : ServeHTTP(mx, path, FALSE)

SpecGuard == InitServing /\ [][NextGuard]_vars

\* Muxes without middleware, with prefixes that end in two separators among
\* those given to Mount
NextMount ==
    \/ \E mx \in Muxes, pat \in Patterns, kind \in HandlerKinds :
          Handle(mx, pat, kind)
    \/ \E mx \in Muxes, prefix \in Prefixes \cup DeepPrefixes,
           sub \in Muxes :
          Mount(mx, prefix, sub)
    \/ \E mx \in Muxes, path \in Paths : ServeHTTP(mx, path, TRUE)

SpecMount == InitServing /\ [][NextMount]_vars

\* a Response on its own: the calls a handler makes on it
NextResponse ==
    \/ \E code \in Codes : WriteHeader(code)
    \/ \E len \in 0..MaxWriteLen, n \in 0..MaxWriteLen, err \in BOOLEAN :
          Write(len, n, err)
    \/ \E op \in Capabilities : Passthrough(op)

\* a Response around an embedded writer of any kind
InitResponse ==
    /\ InitObjects
    /\ addr = <<":", "p">>
    /\ sinkCaps \in SUBSET Capabilities

SpecResponse == InitResponse /\ [][NextResponse]_vars

----------------------------------------------------------------------------
(* Properties: what a log shows *)

\* the calls of a log without their results
Calls(log) == [k \in 1..Len(log) |-> <<log[k][1], log[k][2]>>]

\* positions of a log where a servlet Start returned an error
FailedStarts(log) == {k \in 1..Len(log) : log[k][1] = "Start" /\ ~log[k][3]}

\* positions of a log where a servlet Stop returned an error
FailedStops(log) == {k \in 1..Len(log) : log[k][1] = "Stop" /\ ~log[k][3]}

\* Start on servlets 1..i of s.servs in order, each returning nil
StartsOk(i) == [k \in 1..i |-> <<"Start", servs[k], TRUE>>]

\* Start on servlets 1..i in order, then Stop on i-1..1
StartThenRollback(i) ==
    [k \in 1..(2 * i - 1) |->
        IF k <= i THEN <<"Start", servs[k]>> ELSE <<"Stop", servs[2 * i - k]>>]

\* Stop on servlets n..1 of s.servs
StopsDown(n) == [k \in 1..n |-> <<"Stop", servs[n + 1 - k]>>]

\* the shutdown goroutine t has left its loop
PastStopLoop(t) == taskPc[t] \in {"shutdown", "drain", "reply", "done"}

\* the Start call c succeeded
Started(c) == startPc[c] = "done" /\ startRes[c] = NoErr

----------------------------------------------------------------------------
(* C1: once Start succeeded, the shutdown goroutine that takes a Stop call
   invokes Stop on the servlets registered at that moment from the last to the
   first, each once and in that order whatever the Stop calls return; when
   nothing was registered after Start these are the servlets Start started. *)
C1_StopReverseOrder ==
    \A t \in StartIds :
        /\ taskPc[t] # "none" => Started(t)
        /\ Calls(taskLog[t])
             = SubSeq(StopsDown(taskN[t]), 1, Len(taskLog[t]))
        /\ PastStopLoop(t) =>
             /\ Calls(taskLog[t]) = StopsDown(taskN[t])
             /\ taskN[t] = startN[t] =>
                  [k \in 1..taskN[t] |-> taskLog[t][k][2]]
                    = Reverse([k \in 1..startN[t] |-> startLog[t][k][2]])

\* three servlets were stopped 3, 2, 1 although the Stop of the last one, the
\* first to be stopped, returned an error
C1_Witness ==
    \E t \in StartIds :
        /\ taskPc[t] = "done"
        /\ taskN[t] = 3
        /\ startN[t] = 3
        /\ Len(taskLog[t]) = 3
        /\ ~taskLog[t][1][3]

(* C2: a Start call in which the Start of servlet Si returned an error has
   called Start on S1..Si in order, then Stop on S(i-1)..S1 in order, nothing
   else, and returns Si's error. *)
C2_StartFailureRollsBack ==
    \A c \in StartIds :
        (startPc[c] = "done" /\ FailedStarts(startLog[c]) # {}) =>
            \E i \in 1..startN[c] :
                /\ FailedStarts(startLog[c]) = {i}
                /\ Calls(startLog[c]) = StartThenRollback(i)
                /\ startRes[c] = StartErr(servs[i])

\* A, B, C registered, B failed: A started then stopped, C untouched
C2_Witness ==
    \E c \in StartIds :
        /\ startPc[c] = "done"
        /\ startN[c] = 3
        /\ startRes[c] = StartErr(servs[2])
        /\ Calls(startLog[c])
             = << <<"Start", servs[1]>>, <<"Start", servs[2]>>,
                  <<"Stop", servs[1]>> >>

(* C3: while the Start of servlet S(k+1) is in progress within a Start call,
   the calls made so far are the Starts of S1..Sk, each returned without
   error; no two servlet Starts are in progress at once. *)
C3_SequentialStart ==
    /\ \A c \in StartIds :
          startPc[c] = "inStart" =>
              /\ startI[c] \in 1..startN[c]
              /\ startLog[c] = StartsOk(startI[c] - 1)
    /\ Cardinality({c \in StartIds : startPc[c] = "inStart"}) <= 1

\* the Start of the third servlet is in progress
C3_Witness == \E c \in StartIds : startPc[c] = "inStart" /\ startI[c] = 3

(* C4: from the failure of a servlet Start on, through the rollback and
   whatever its Stop calls return, the value Start holds and returns is the
   start error; when Start returns, every servlet started before has been
   stopped. *)
C4_RollbackKeepsStartError ==
    \A c \in StartIds :
        \A i \in FailedStarts(startLog[c]) :
            /\ startRes[c] = StartErr(startLog[c][i][2])
            /\ startPc[c] = "done" =>
                 {startLog[c][k][2] : k \in (i + 1)..Len(startLog[c])}
                   = {startLog[c][k][2] : k \in 1..(i - 1)}

\* the third servlet failed to start, the Stop of the second returned an
\* error, the first was stopped all the same
C4_Witness ==
    \E c \in StartIds :
        /\ startPc[c] = "done"
        /\ FailedStarts(startLog[c]) = {3}
        /\ 4 \in FailedStops(startLog[c])
        /\ Len(startLog[c]) = 5

(* C5: the value a Stop call returns is the value server.Shutdown returned to
   the shutdown goroutine that took the call: nil, the listener error or the
   context error, never the error of a servlet Stop. *)
C5_StopReturnsShutdownResult ==
    \A d \in StopIds :
        stopPc[d] = "done" =>
            \E t \in StartIds :
                /\ taskExit[t] = d
                /\ taskPc[t] = "done"
                /\ stopRes[d] = taskRes[t]
                /\ stopRes[d] \in {NoErr, LnErr, CtxErr}

\* Stop returned nil although the Stop of each of two servlets returned an
\* error
C5_Witness ==
    \E d \in StopIds, t \in StartIds :
        /\ stopPc[d] = "done"
        /\ taskExit[t] = d
        /\ taskN[t] = 2
        /\ FailedStops(taskLog[t]) = {1, 2}
        /\ stopRes[d] = NoErr

(* C6: when the ctx given to Stop is done while the transport engine drains
   with a request in flight, server.Shutdown stops waiting, so that Stop
   returns with the context's error. *)
C6_StopCtxBoundsDrain ==
    \A d \in StopIds, t \in StartIds :
        (/\ stopPc[d] = "recv"
         /\ taskExit[t] = d
         /\ taskPc[t] = "drain"
         /\ stopCtx[d]) => ShutdownCanReturn(t)

(* C7: a request in flight during a Stop whose ctx never ends runs to its
   end: its context is not cancelled while its handler runs, and Stop returns
   only when no request of the engine it shut down is in flight. *)
C7_GracefulDrain ==
    /\ \A e \in StartIds : inflight[e] > 0 => ~lctxDone[e]
    /\ \A d \in StopIds, t \in StartIds :
          (stopPc[d] = "done" /\ taskExit[t] = d /\ ~stopCtx[d]) =>
              /\ inflight[t] = 0
              /\ stopRes[d] # CtxErr

\* Stop is blocked while server.Shutdown waits for a request in flight
C7_Witness ==
    \E d \in StopIds, t \in StartIds :
        /\ stopPc[d] = "recv"
        /\ ~stopCtx[d]
        /\ taskExit[t] = d
        /\ taskPc[t] = "drain"
        /\ inflight[t] > 0

(* C8: a transport engine that listens, or has accepted a request, belongs to
   a Start call that returned nil after the Start of every servlet registered
   at the call returned nil. *)
C8_ServletsBeforeListen ==
    \A e \in StartIds :
        (engState[e] = "listening" \/ accepted[e] > 0) =>
            /\ Started(e)
            /\ startLog[e] = StartsOk(startN[e])

\* an engine listens after three servlets started
C8_Witness ==
    \E e \in StartIds : engState[e] = "listening" /\ startN[e] = 3

(* C9: a Start call that returned an error made no http.Server, no serving
   goroutine and no shutdown goroutine; a Start call on an invalid address
   returns the address error and called no servlet. *)
C9_FailedStartSpawnsNothing ==
    \A c \in StartIds :
        /\ (startPc[c] = "done" /\ startRes[c] # NoErr) =>
              /\ engState[c] = "none"
              /\ taskPc[c] = "none"
              /\ accepted[c] = 0
        /\ (startPc[c] = "done" /\ SplitHostPortErr(addr) # NoErr) =>
              /\ startRes[c] = SplitHostPortErr(addr)
              /\ startLog[c] = <<>>

\* Start returned the address error of "localhost" with a servlet registered
C9_Witness ==
    \E c \in StartIds :
        /\ startPc[c] = "done"
        /\ addr = <<"h">>
        /\ startRes[c] = AddrErrMissingPort
        /\ Len(servs) >= 1

\* Stop calls whose reply channel was taken by a shutdown goroutine
Served == {d \in StopIds : stopPc[d] \in {"recv", "done"}}

\* shutdown goroutines created so far
Tasks == {t \in StartIds : taskPc[t] # "none"}

(* C10: a shutdown goroutine takes one Stop call and stops each servlet once:
   the Stop calls that got past the handoff are never more than the
   successful Start calls, so after one Start and one completed Stop a further
   Stop stays blocked on s.exit and no servlet is stopped again. *)
C10_SecondStopBlocks ==
    /\ Cardinality(Served) <= Cardinality(Tasks)
    /\ \A d \in Served :
          \E t \in Tasks : taskExit[t] = d /\ taskPc[t] # "wait"
    /\ \A t \in StartIds : Len(taskLog[t]) <= taskN[t]

\* one Start succeeded and its Stop completed; a second Stop call waits on
\* s.exit, where no goroutine receives
C10_Witness ==
    \E t \in StartIds, d1, d2 \in StopIds :
        /\ Tasks = {t}
        /\ taskPc[t] = "done"
        /\ taskN[t] >= 1
        /\ stopPc[d1] = "done"
        /\ stopPc[d2] = "send"
        /\ \A c \in StartIds : startPc[c] \in {"idle", "done"}

\* the servlets on which the Start call c called Start, in order
StartedBy(c) ==
    LET S == SelectSeq(startLog[c], LAMBDA e : e[1] = "Start")
    IN [k \in 1..Len(S) |-> S[k][2]]

\* the servlets on which the shutdown goroutine t called Stop, in order
StoppedBy(t) == [k \in 1..Len(taskLog[t]) |-> taskLog[t][k][2]]

(* C11: the servlets the shutdown goroutine of a Start call stops are the
   servlets that call started: each servlet it stops was started by the call,
   and once its loop is over the stops are the mirror of the starts.  A
   servlet registered after Start is hence never stopped unstarted. *)
C11_StopsMirrorStarts ==
    \A t \in StartIds :
        /\ \A k \in 1..Len(StoppedBy(t)) :
              \E j \in 1..Len(StartedBy(t)) : StartedBy(t)[j] = StoppedBy(t)[k]
        /\ PastStopLoop(t) => StoppedBy(t) = Reverse(StartedBy(t))

\* shutdown goroutines that have been spawned and have not ended
LiveTasks == {t \in StartIds : taskPc[t] \notin {"none", "done"}}

\* shutdown goroutines blocked on the receive from s.exit
WaitingTasks == {t \in StartIds : taskPc[t] = "wait"}

(* C12: a Server has at most one shutdown goroutine alive at any time, and
   never two of them waiting on s.exit. *)
C12_OneCoordinationTask ==
    /\ Cardinality(LiveTasks) <= 1
    /\ Cardinality(WaitingTasks) <= 1

\* number of calls of kind ("Start" or "Stop") on servlet x in a log that
\* have returned; of the Starts only those that returned nil count
CallsOn(log, kind, x) ==
    Cardinality({k \in 1..Len(log) :
                    /\ log[k][1] = kind
                    /\ log[k][2] = x
                    /\ (kind = "Start" => log[k][3])})

\* times servlet x has been started, by any Start call
TimesStarted(x) ==
    SumOver([c \in StartIds |-> CallsOn(startLog[c], "Start", x)], StartIds)

\* times servlet x has been stopped, by a rollback or a shutdown goroutine
TimesStopped(x) ==
    SumOver([c \in StartIds |-> CallsOn(startLog[c], "Stop", x)
                                 + CallsOn(taskLog[c], "Stop", x)], StartIds)

\* servlet x is in state Started: started and not stopped since
CurrentlyStarted(x) == TimesStarted(x) > TimesStopped(x)

(* C13: a servlet goes Registered -> Started -> Stopped: Start is never called
   on a servlet that is Started, and a servlet is never stopped more times
   than it was started. *)
C13_ServletStateMachine ==
    /\ \A c \in StartIds :
          startPc[c] = "inStart" => ~CurrentlyStarted(servs[startI[c]])
    /\ \A x \in Components : TimesStopped(x) <= TimesStarted(x)

\* the Start call c is past the servlet Start during which its ctx ended
PastCancelledStart(c) ==
    /\ startCtx[c] # 0
    /\ ~(startPc[c] = "inStart" /\ startI[c] = startCtx[c])

(* C14: when the ctx of a Start call ends while servlet Si is starting, the
   call takes Si's start as failed: it starts no later servlet, rolls back
   S(i-1)..S1, spawns no goroutine and no engine, and returns an error. *)
C14_CancelledStartFails ==
    \A c \in StartIds :
        PastCancelledStart(c) =>
            /\ FailedStarts(startLog[c]) = {startCtx[c]}
            /\ startPc[c] \in {"rollback", "inRollbackStop", "done"}
            /\ engState[c] = "none"
            /\ taskPc[c] = "none"
            /\ startPc[c] = "done" =>
                 /\ startRes[c] # NoErr
                 /\ Calls(startLog[c]) = StartThenRollback(startCtx[c])

\* the entries, runs of handlers and exits of a trace
Steps(t) == SelectSeq(t, LAMBDA e : e[1] \notin {"make", "wrap"})

\* the last request was served by a function registered on the Mux it was
\* sent to
ServedByOwnHandler ==
    /\ req # NoReq
    /\ Resolve(handlers[req[1]], req[2]).kind = "route"
    /\ Resolve(handlers[req[1]], req[2]).route[2] = <<"func">>

\* entries of m1..mk in order, the handler's run, exits of mk..m1
Onion(ms, run) ==
    [k \in 1..Len(ms) |-> <<"pre", ms[k]>>]
      \o << run >>
      \o [k \in 1..Len(ms) |-> <<"post", ms[Len(ms) + 1 - k]>>]

(* C15: a request whose path has a handler, served by a Mux on which Use was
   called with m1..mk in that order, enters m1, m2, ..., mk, runs the handler,
   then leaves mk, ..., m1: the middleware registered first is outermost. *)
C15_MiddlewareOrder ==
    ServedByOwnHandler =>
        Steps(trace) = Onion(uses[req[1]],
                             <<"handler", req[1], req[2], req[2],
                               ResponseOf(Sink)>>)

\* served through three different middlewares registered in the order 2, 3, 1
C15_Witness ==
    /\ ServedByOwnHandler
    /\ req = <<"root", <<"/", "a">> >>
    /\ uses["root"] = <<2, 3, 1>>
    /\ Len(trace) > 0

(* C16: with no middleware registered, serving a request is running the
   handler http.ServeMux matches for it and nothing else. *)
C16_NoMiddlewareIdentity ==
    (ServedByOwnHandler /\ uses[req[1]] = <<>>) =>
        trace = << <<"wrap", req[1], Sink>>,
                   <<"handler", req[1], req[2], req[2], ResponseOf(Sink)>> >>

\* a request served by a Mux with a handler for it and no middleware
C16_Witness ==
    /\ req = <<"sub", <<"/", "a">> >>
    /\ uses["sub"] = <<>>
    /\ ServedByOwnHandler
    /\ Len(trace) = 2

\* positions of a log of calls that are WriteHeader or Write calls
Commits(log) ==
    {k \in 1..Len(log) : log[k][1] \in {"WriteHeader", "Write"}}

\* the first position of a non-empty set of positions
First(S) == CHOOSE k \in S : \A j \in S : k <= j

\* the Write calls of a log of calls, and the sum of the counts they returned
Writes(log) == SelectSeq(log, LAMBDA e : e[1] = "Write")

RECURSIVE SumCounts(_)
SumCounts(log) ==
    IF log = <<>> THEN 0
    ELSE (IF Head(log)[1] = "Write" THEN Head(log)[3] ELSE 0)
         + SumCounts(Tail(log))

(* C17: a Response is committed exactly when WriteHeader or Write has been
   called on it, a Write of zero bytes included: committed is false until the
   first such call and true ever after, whatever Flush, Hijack and Push calls
   come before or after. *)
C17_CommittedOnce == resp.committed <=> Commits(respLog) # {}

\* committed by a Write of no byte, then a Flush and a WriteHeader
C17_Witness ==
    /\ respLog = << <<"Write", 0, 0, FALSE>>, <<"Flush", "forwarded">>,
                    <<"WriteHeader", StatusNotFound>> >>
    /\ resp.committed

(* C18: when the first WriteHeader or Write call on a Response is
   WriteHeader(c), Status() is c after every later call, WriteHeader calls
   with other codes and Writes included. *)
C18_StatusImmutable ==
    (/\ Commits(respLog) # {}
     /\ respLog[First(Commits(respLog))][1] = "WriteHeader")
        => resp.status = respLog[First(Commits(respLog))][2]

\* WriteHeader(201), then Writes of 3 and of 4 bytes: status 201, size 7
C18_Witness ==
    /\ respLog = << <<"WriteHeader", StatusCreated>>,
                    <<"Write", 3, 3, FALSE>>, <<"Write", 4, 4, FALSE>> >>
    /\ resp.status = StatusCreated
    /\ resp.size = 7

(* C19: after one or more Writes and no WriteHeader call, the embedded writer
   has received WriteHeader(200) once, before the first Write, and then the
   Writes; Status() is 200, Committed() is true and Size() is the sum of the
   counts of the Writes, which is the sum of their lengths when each was
   taken whole. *)
C19_ImplicitHeader ==
    (/\ Writes(respLog) # <<>>
     /\ \A k \in 1..Len(respLog) : respLog[k][1] # "WriteHeader")
        => /\ SelectSeq(resp.w, LAMBDA e : e[1] \in {"WriteHeader", "Write"})
                = << <<"WriteHeader", StatusOK>> >>
                    \o [k \in 1..Len(Writes(respLog)) |->
                          << "Write", Writes(respLog)[k][2],
                             Writes(respLog)[k][3] >>]
           /\ resp.status = StatusOK
           /\ resp.committed
           /\ resp.size = SumCounts(respLog)

\* three Writes of 1, 0 and 4 bytes, each taken whole, and no WriteHeader
C19_Witness ==
    /\ respLog = << <<"Write", 1, 1, FALSE>>, <<"Write", 0, 0, FALSE>>,
                    <<"Write", 4, 4, FALSE>> >>
    /\ resp.size = 5

(* C20: Size() is the sum of the counts the embedded writer returned for the
   Writes made so far, hence never less than before a call: a Write taken in
   part, or one that returned an error, adds the count returned and not the
   length of the slice. *)
C20_SizeIsBytesWritten ==
    /\ resp.size = SumCounts(respLog)
    /\ resp.size = SumCounts(resp.w)
    /\ \A k \in 1..Len(respLog) :
          SumCounts(SubSeq(respLog, 1, k - 1))
            <= SumCounts(SubSeq(respLog, 1, k))

\* a Write of 4 bytes of which 1 was taken, then one of 2 bytes that failed
\* with nothing taken
C20_Witness ==
    /\ respLog = << <<"Write", 4, 1, TRUE>>, <<"Write", 2, 0, TRUE>> >>
    /\ resp.size = 1

\* positions of the log of calls where op was called with the given outcome
CallsWith(op, outcome) ==
    {k \in 1..Len(respLog) : respLog[k] = <<op, outcome>>}

(* C21: Flush on a Response whose embedded writer cannot flush panics;
   Hijack and Push on a writer that does not support them return an error and
   do not panic; a supported call is forwarded to the embedded writer, and no
   unsupported call reaches it. *)
C21_CapabilityAsymmetry ==
    /\ \A k \in 1..Len(respLog) :
          respLog[k][1] \in Capabilities =>
              respLog[k][2] =
                  IF respLog[k][1] \in sinkCaps THEN "forwarded"
                  ELSE IF respLog[k][1] = "Flush" THEN "panic" ELSE "error"
    /\ \A op \in Capabilities :
          Cardinality({k \in 1..Len(resp.w) : resp.w[k] = <<op>>})
            = Cardinality(CallsWith(op, "forwarded"))

\* on a writer that only supports Push: Flush panicked, Hijack returned an
\* error, Push was forwarded
C21_Witness ==
    /\ sinkCaps = {"Push"}
    /\ respLog = << <<"Flush", "panic">>, <<"Hijack", "error">>,
                    <<"Push", "forwarded">> >>
    /\ resp.w = << <<"Push">> >>

\* the wrappers made while the last request was served, and the runs of
\* registered functions
WrapsOf(t) == SelectSeq(t, LAMBDA e : e[1] = "wrap")
RunsOf(t) == SelectSeq(t, LAMBDA e : e[1] = "handler")

(* C22: NewResponse is idempotent: wrapping a writer that is a Response
   already gives that same writer.  A request that passes through a mounted
   Mux is wrapped once, by the Mux it was sent to, so that every handler that
   runs for it writes to the one wrapper around the writer of the server. *)
C22_WrapOnce ==
    /\ \A w \in {Sink, ResponseOf(Sink)} :
         NewResponseOf(NewResponseOf(w)) = NewResponseOf(w)
    /\ req # NoReq =>
         /\ WrapsOf(trace) = << <<"wrap", req[1], Sink>> >>
         /\ \A k \in 1..Len(RunsOf(trace)) :
              RunsOf(trace)[k][5] = ResponseOf(Sink)

\* a request sent to the root Mux and run by a function of the Mux mounted
\* at /p, whose ServeHTTP was handed the wrapper the root Mux made
C22_Witness ==
    /\ req = <<"root", <<"/", "p", "/", "a">> >>
    /\ RunsOf(trace) =
         << <<"handler", "sub", <<"/", "a">>, <<"/", "a">>,
              ResponseOf(Sink)>> >>
    /\ WrapsOf(trace) = << <<"wrap", "root", Sink>> >>

\* the last call was m.Handle or m.HandleFunc with an argument registerErr
\* rejects: the empty pattern, a nil handler, a nil http.HandlerFunc
RejectedHandle(call) ==
    /\ call # NoCall
    /\ call[1] = "Handle"
    /\ call[3] = <<>> \/ call[4] \in {"nil", "nilFunc"}

(* C23: Handle and HandleFunc panic whenever the pattern is empty, the
   handler is nil, or the handler is a nil http.HandlerFunc in a non-nil
   interface; such a call never returns normally and leaves the routes of
   every Mux as they were. *)
C23_RejectedHandlePanics ==
    [][RejectedHandle(reg') =>
         (reg'[5][1] = "panic" /\ handlers' = handlers)]_vars

\* a nil http.HandlerFunc was offered to a Mux with a pattern that is
\* free: the call panicked and the Mux has no route
C23_Witness ==
    /\ reg = <<"Handle", "root", <<"/", "a">>, "nilFunc",
               <<"panic", <<"h3: nil handler">> >> >>
    /\ handlers["root"] = {}
    /\ handlers["sub"] # {}

\* the last call was m.Mount with the empty prefix
EmptyMount(call) ==
    call # NoCall /\ call[1] = "Mount" /\ call[3] = <<>>

(* C25: Mount with the empty prefix panics and registers nothing on the
   parent Mux. *)
C25_EmptyMountPanics ==
    [][EmptyMount(reg') =>
         (reg'[5][1] = "panic" /\ handlers' = handlers)]_vars

\* Mount with the empty prefix on a Mux that has a function at /a and
\* nothing else: the call panicked and the Mux has no other route
C25_Witness ==
    /\ reg = <<"Mount", "root", <<>>, "mux",
               <<"panic", <<"h3: invalid pattern">> >> >>
    /\ handlers["root"] = { << <<"/", "a">>, <<"func">> >> }

\* the sub Mux is mounted on the root Mux at /p, or at /
MountedAtP ==
    \E r \in handlers["root"] :
        r[1] = MountPattern(<<"/", "p">>) /\ r[2][1] # "func"

MountedAtRoot ==
    \E r \in handlers["root"] : r[1] = <<"/">> /\ r[2][1] # "func"

\* the last request ran the function the sub Mux has at x, and nothing
\* else, and the sub Mux saw the path x
SubRan(x) ==
    RunsOf(trace) = << <<"handler", "sub", x, x, ResponseOf(Sink)>> >>

\* the root Mux has a function of its own at the path of the last request
OwnRoute ==
    \E r \in handlers["root"] : r[1] = req[2] /\ r[2] = <<"func">>

\* C24 as stated: a pattern /x of the sub Mux is reachable at P/x once the
\* sub Mux is mounted at P, and at /x once it is mounted at /, whatever else
\* the parent has registered
C24_MountAlwaysReaches ==
    \A x \in Patterns \ {<<>>} :
        (req # NoReq /\ req[1] = "root"
           /\ << x, <<"func">> >> \in handlers["sub"]) =>
            /\ (MountedAtP /\ req[2] = <<"/", "p">> \o x) => SubRan(x)
            /\ (MountedAtRoot /\ req[2] = x) => SubRan(x)

(* C24: with a sub Mux mounted at a prefix P other than /, a request for
   P/x is served by what the sub Mux has at /x, and the sub Mux sees the
   path /x; with the sub Mux mounted at /, a request for /x is served by
   what the sub Mux has at /x and the path is left as it is.  Both hold when
   the parent has no route of its own for the path of the request: a route
   of the parent at that very path is more specific than the mount and
   wins. *)
C24_MountReaches ==
    \A x \in Patterns \ {<<>>} :
        (req # NoReq /\ req[1] = "root" /\ ~OwnRoute
           /\ << x, <<"func">> >> \in handlers["sub"]) =>
            /\ (MountedAtP /\ req[2] = <<"/", "p">> \o x) => SubRan(x)
            /\ (MountedAtRoot /\ req[2] = x) => SubRan(x)

\* the sub Mux was mounted with the prefix "/p/" and serves a request for
\* /p/a with its function at /a
C24_Witness ==
    /\ req = <<"root", <<"/", "p", "/", "a">> >>
    /\ MountedAtP
    /\ ~MountedAtRoot
    /\ ~OwnRoute
    /\ SubRan(<<"/", "a">>)

\* the sub Mux is mounted at / and serves a request for /a, path unchanged
C24_WitnessRoot ==
    /\ req = <<"root", <<"/", "a">> >>
    /\ MountedAtRoot
    /\ ~OwnRoute
    /\ SubRan(<<"/", "a">>)

\* the components whose router is mounted on the router of the server, in
\* the order of the Register calls, which is the order of their numbers
Mounted ==
    SelectSeq([k \in 1..MaxComponents |-> k],
              LAMBDA c : MountPattern(CompPrefix(c)) \in routes)

(* C26: every Register call that returns has mounted the router of its
   component under the prefix of the component, and the servlet sequence is
   the components registered that are servlets, in the order of their
   Register calls: a component that is no Servlet is mounted and not
   appended. *)
C26_RegisterMountsAndAppends ==
    /\ Mounted = [k \in 1..Cardinality(routes) |-> k]
    /\ servs = SelectSeq(Mounted, CompIsServlet)

\* two servlets registered around a component that is no Servlet, before
\* any Start
C26_Witness ==
    /\ Len(Mounted) = 3
    /\ servs = <<1, 3>>
    /\ \A c \in StartIds : startPc[c] = "idle"

(* C27: Options.Addr is optional: on a Server made with the default
   configuration, whose Addr is the empty string, Start does not fail the
   validation of the address; it goes on to the servlets and the engine. *)
C27_DefaultAddrStarts ==
    addr = <<>> =>
        \A c \in StartIds :
            startRes[c] \notin {AddrErrMissingPort, AddrErrTooManyColons}

(* C28: when server.Shutdown of a transport engine begins, the shutdown
   goroutine that calls it has called Stop on every servlet its loop ranges
   over and every one of these calls has returned: no Stop of the loop is
   pending or still to be made while the engine is shut down. *)
C28_ServletStopsBeforeShutdown ==
    \A t \in StartIds :
        inShutdown[t] =>
            /\ taskPc[t] \in {"drain", "reply", "done"}
            /\ StoppedBy(t) = Reverse(SubSeq(servs, 1, taskN[t]))

\* server.Shutdown has begun and has not returned, after the Stop calls of
\* three servlets returned, one of them with an error
C28_Witness ==
    \E t \in StartIds :
        /\ inShutdown[t]
        /\ taskPc[t] = "drain"
        /\ taskN[t] = 3
        /\ Len(taskLog[t]) = 3
        /\ \E k \in 1..3 : ~taskLog[t][k][3]

(* C29: a Stop call that has returned was answered by a shutdown goroutine
   that had called Stop on every servlet of its loop and whose
   server.Shutdown had returned, with the value Stop returns; from then on
   the engine of that goroutine does not listen and accepts no request. *)
C29_StopWaitsForShutdown ==
    \A d \in StopIds :
        stopPc[d] = "done" =>
            \E t \in StartIds :
                /\ taskExit[t] = d
                /\ taskPc[t] = "done"
                /\ Len(taskLog[t]) = taskN[t]
                /\ taskRes[t] # Pending
                /\ stopRes[d] = taskRes[t]
                /\ inShutdown[t]
                /\ engState[t] # "listening"

\* Stop has returned after two servlets were stopped and the engine, which
\* had served a request, was shut down
C29_Witness ==
    \E d \in StopIds, t \in StartIds :
        /\ stopPc[d] = "done"
        /\ taskExit[t] = d
        /\ taskN[t] = 2
        /\ accepted[t] = 1
        /\ engState[t] = "closed"

\* the Stop calls that were made
CalledStops == {d \in StopIds : stopPc[d] # "idle"}

\* no servlet occurs twice in a sequence of servlets
NoRepeats(ss) == \A j, k \in 1..Len(ss) : ss[j] = ss[k] => j = k

(* C30: with one shutdown goroutine, that of a single successful Start,
   and any number of overlapping Stop calls, one Stop call at most gets past
   s.exit; the goroutine calls Stop once on each servlet of its loop and
   server.Shutdown once; when a Stop call has returned it is the only one,
   the sequence is complete and every other Stop call is still blocked
   sending on s.exit. *)
C30_ConcurrentStopsOneShutdown ==
    Cardinality(Tasks) = 1 =>
        \A t \in Tasks :
            /\ Cardinality(Served) <= 1
            /\ NoRepeats(StoppedBy(t))
            /\ Len(taskLog[t]) <= taskN[t]
            /\ \A d \in StopIds :
                  stopPc[d] = "done" =>
                      /\ Served = {d}
                      /\ taskExit[t] = d
                      /\ taskPc[t] = "done"
                      /\ Len(taskLog[t]) = taskN[t]
                      /\ inShutdown[t]
                      /\ \A b \in CalledStops \ {d} : stopPc[b] = "send"

\* of two overlapping Stop calls after one Start with two servlets, the
\* one made second has returned; the one made first is blocked on s.exit
C30_Witness ==
    /\ Cardinality(Tasks) = 1
    /\ \A c \in StartIds : startPc[c] = "done" => startRes[c] = NoErr
    /\ stopPc[1] = "send"
    /\ stopPc[2] = "done"
    /\ \E t \in Tasks : taskN[t] = 2 /\ Len(taskLog[t]) = 2

(* C31: while the Server has no shutdown goroutine, Start never called or
   every Start call returned an error, a Stop call that was made is blocked
   in its send on s.exit: it has not returned, and no shutdown loop has
   called Stop on a servlet. *)
C31_StopWithoutTaskBlocks ==
    Tasks = {} =>
        /\ \A d \in StopIds :
              stopPc[d] \in {"idle", "send"} /\ stopRes[d] = Pending
        /\ \A t \in StartIds : taskLog[t] = <<>>

\* a Stop call is blocked after the only Start call made returned the error
\* of a servlet; no shutdown goroutine exists
C31_Witness ==
    /\ Tasks = {}
    /\ stopPc[1] = "send"
    /\ \E c \in StartIds :
          /\ startPc[c] = "done"
          /\ startRes[c] # NoErr
          /\ startLog[c] # <<>>

\* the WriteHeader calls the embedded writer received
SinkHeaders == SelectSeq(resp.w, LAMBDA e : e[1] = "WriteHeader")

\* this step is a call of WriteHeader on the Response
WriteHeaderCalled ==
    /\ respLog' # respLog
    /\ respLog'[Len(respLog')][1] = "WriteHeader"

(* C32: a WriteHeader call on a committed Response changes nothing: status,
   size and committed stay as they are and no call reaches the embedded
   writer, which therefore receives WriteHeader once at most. *)
C32_LateWriteHeaderNoOp ==
    /\ [](Len(SinkHeaders) <= 1)
    /\ [][(resp.committed /\ WriteHeaderCalled) => resp' = resp]_vars

\* WriteHeader(201) and then WriteHeader(404): the status is 201 and the
\* embedded writer received WriteHeader(201) alone
C32_Witness ==
    /\ respLog = << <<"WriteHeader", StatusCreated>>,
                    <<"WriteHeader", StatusNotFound>> >>
    /\ resp.status = StatusCreated
    /\ resp.w = << <<"WriteHeader", StatusCreated>> >>

(* C33: the Response mirrors the embedded writer: before it is committed the
   writer has received no WriteHeader and no byte; once it is committed the
   writer has received one WriteHeader call, with the code Status() returns,
   and the counts the writer returned for the Writes it received add up to
   Size(). *)
C33_MirrorsSink ==
    /\ ~resp.committed => (SinkHeaders = <<>> /\ resp.size = 0)
    /\ resp.committed =>
          /\ Len(SinkHeaders) = 1
          /\ SinkHeaders[1][2] = resp.status
    /\ SumCounts(resp.w) = resp.size

\* WriteHeader(404), a Write of which the writer took 2 of 3 bytes, then a
\* Write of 1 byte: the writer holds status 404 and 3 bytes
C33_Witness ==
    /\ resp.w = << <<"WriteHeader", StatusNotFound>>, <<"Write", 3, 2>>,
                   <<"Write", 1, 1>> >>
    /\ resp.status = StatusNotFound
    /\ resp.size = 3

\* this step is a call of Flush, Hijack or Push on the Response
PassthroughCalled ==
    /\ respLog' # respLog
    /\ respLog'[Len(respLog')][1] \in Capabilities

\* what Status(), Size() and Committed() return
Captured(r) == <<r.status, r.size, r.committed>>

(* C34: Flush, Hijack and Push leave Status(), Size() and Committed() as
   they were, whether the call is forwarded, returns an error or panics; a
   Flush on an uncommitted Response leaves it uncommitted, so that a later
   WriteHeader records its code. *)
C34_PassthroughKeepsState ==
    [][PassthroughCalled => Captured(resp') = Captured(resp)]_vars

\* a Hijack that failed and a Flush that was forwarded, both on the
\* uncommitted Response, then WriteHeader(201), which is recorded
C34_Witness ==
    /\ respLog = << <<"Hijack", "error">>, <<"Flush", "forwarded">>,
                    <<"WriteHeader", StatusCreated>> >>
    /\ Captured(resp) = <<StatusCreated, 0, TRUE>>

\* what the http.ServeMux of Mux mx does for a path when it does not pass
\* the request on to a mounted Mux
EngineStep(mx, path) ==
    LET r == Resolve(handlers[mx], path)
    IN IF r.kind = "route"
       THEN <<"handler", mx, r.route[1], path, ResponseOf(Sink)>>
       ELSE <<r.kind, mx, path>>

\* the last request was sent to the root Mux; it was passed on to the
\* mounted Mux, which saw the path SubPath
ToRoot == req # NoReq /\ req[1] = "root"

PassedToSub ==
    /\ ToRoot
    /\ Resolve(handlers["root"], req[2]).kind = "route"
    /\ Resolve(handlers["root"], req[2]).route[2][1] \in {"mux", "strip"}

SubPath ==
    LET target == Resolve(handlers["root"], req[2]).route[2]
    IN IF target[1] = "strip" THEN TrimPrefix(req[2], target[2]) ELSE req[2]

\* entries of ms, then ns around the run, then exits of ms in reverse
Nested(ms, ns, run) ==
    [k \in 1..Len(ms) |-> <<"pre", ms[k]>>]
      \o Onion(ns, run)
      \o [k \in 1..Len(ms) |-> <<"post", ms[Len(ms) + 1 - k]>>]

(* C35: a request the root Mux passes on to a mounted Mux enters the
   middlewares of the root in the order of their registration, then those
   of the mounted Mux, runs what the mounted Mux has for the path, and leaves
   the middlewares of the mounted Mux and then those of the root in reverse
   order; a request to the root that is not passed on runs the middlewares
   of the root alone. *)
C35_ParentWrapsSub ==
    /\ PassedToSub =>
          Steps(trace) = Nested(uses["root"], uses["sub"],
                                EngineStep("sub", SubPath))
    /\ (ToRoot /\ ~PassedToSub) =>
          Steps(trace) = Onion(uses["root"], EngineStep("root", req[2]))

\* a request for /p/a, through middleware 1 of the root and middlewares 2
\* and 3 of the Mux mounted at /p, to the function that Mux has at /a
C35_Witness ==
    /\ PassedToSub
    /\ req[2] = <<"/", "p", "/", "a">>
    /\ uses["root"] = <<1>>
    /\ uses["sub"] = <<2, 3>>
    /\ EngineStep("sub", SubPath)[1] = "handler"
    /\ Len(Steps(trace)) = 7

\* a request for /a, outside the prefix /p of the mounted Mux, which has a
\* middleware: the middleware of the root runs, that of the mounted Mux
\* does not
C35_WitnessOutside ==
    /\ ToRoot
    /\ ~PassedToSub
    /\ MountedAtP
    /\ req[2] = <<"/", "a">>
    /\ uses["root"] = <<1>>
    /\ uses["sub"] = <<2>>
    /\ Len(Steps(trace)) = 3

\* the middlewares on the way of the last request, outermost first: those
\* of the Mux it was sent to, then those of the mounted Mux when the request
\* is one the root passes on
Chain ==
    IF PassedToSub THEN uses["root"] \o uses["sub"] ELSE uses[req[1]]

\* the positions of the permission checks in a sequence of middlewares
GuardsIn(ms) == {k \in 1..Len(ms) : ms[k] \in Guards}

\* the last request had no Authorization header and a permission check on
\* its way
Denied == req # NoReq /\ ~token /\ GuardsIn(Chain) # {}

\* entries of ms[1..j], the refusal of ms[j], exits of ms[j-1..1]
CutAt(ms, j) ==
    [k \in 1..j |-> <<"pre", ms[k]>>]
      \o << <<"deny", ms[j]>> >>
      \o [k \in 1..(j - 1) |-> <<"post", ms[j - k]>>]

(* C36: when the handler of a middleware returns without calling next, no
   middleware registered after it is entered, or even built, and no handler
   of a route runs; the middlewares registered before it, which were
   entered, are left in reverse order of registration. *)
C36_ShortCircuit ==
    Denied =>
        /\ Steps(trace) = CutAt(Chain, First(GuardsIn(Chain)))
        /\ \A k \in 1..Len(trace) :
              trace[k][1] = "make" =>
                  \E j \in 1..First(GuardsIn(Chain)) :
                      Chain[j] = trace[k][2]

\* a request without Authorization header to a Mux with middleware 1, the
\* permission check and middleware 2, registered in that order, and a
\* function at the path
C36_Witness ==
    /\ Denied
    /\ req = <<"root", <<"/", "a">> >>
    /\ uses["root"] = <<1, MaxMiddlewares, 2>>
    /\ << <<"/", "a">>, <<"func">> >> \in handlers["root"]
    /\ Steps(trace) = << <<"pre", 1>>, <<"pre", MaxMiddlewares>>,
                         <<"deny", MaxMiddlewares>>, <<"post", 1>> >>

\* the calls middleware(next) of the transform functions passed to Use that
\* were made while the last request was served
MakesOf(t) == SelectSeq(t, LAMBDA e : e[1] = "make")

(* C37: the composed handler is built once for a registration state and
   kept: a request served after another one, with no Use, Handle or Mount
   call in between, calls no transform function middleware(next). *)
C37_CompositionCached ==
    [][(req # NoReq /\ req' # NoReq) => MakesOf(trace') = <<>>]_vars

\* the first n and the last n elements of a sequence
Front(t, n) == SubSeq(t, 1, n)
Back(t, n) == SubSeq(t, Len(t) - n + 1, Len(t))

(* C38: the middlewares are applied around the whole Mux when a request is
   served: every request given to ServeHTTP enters all the middlewares
   registered on the Mux so far, in order, before anything else happens, and
   leaves them in reverse order after it, whether a route serves it, the
   request is passed on to a mounted Mux, redirected, or no pattern matches
   it, and whether the route was registered before or after the Use calls. *)
C38_ChainAroundRouter ==
    req # NoReq =>
        LET ms == uses[req[1]]
            n == Len(ms)
        IN /\ Len(Steps(trace)) >= 2 * n + 1
           /\ Front(Steps(trace), n) = [k \in 1..n |-> <<"pre", ms[k]>>]
           /\ Back(Steps(trace), n) =
                 [k \in 1..n |-> <<"post", ms[n + 1 - k]>>]

\* a request no pattern matches, on a Mux with two middlewares and a
\* function at another path
C38_Witness ==
    /\ req = <<"root", <<"/", "c">> >>
    /\ uses["root"] = <<2, 1>>
    /\ handlers["root"] = { << <<"/", "a">>, <<"func">> >> }
    /\ Steps(trace) = << <<"pre", 2>>, <<"pre", 1>>,
                         <<"notfound", "root", <<"/", "c">> >>,
                         <<"post", 1>>, <<"post", 2>> >>

\* a prefix less one trailing separator, if it has one
TrimOne(p) == IF p[Len(p)] = "/" THEN SubSeq(p, 1, Len(p) - 1) ELSE p

\* the last call was m.Mount with a prefix other than "" and "/", and it
\* got as far as http.ServeMux
MountedPrefix ==
    /\ reg # NoCall
    /\ reg[1] = "Mount"
    /\ reg[3] \notin {<<>>, <<"/">>}

(* C39: Mount with a prefix other than "/" removes one trailing "/" of the
   prefix, if there is one, and registers the sub Mux at that prefix followed
   by "/{path...}", with that prefix stripped: Mount("/p/", sub) leaves the
   parent with the registration Mount("/p", sub) leaves; a second trailing
   "/" stays, so a Mux mounted at "/p//" alone is not reached by a request
   for /p/a. *)
C39_MountTrimsOneSlash ==
    /\ MountedPrefix =>
          << TrimOne(reg[3]) \o <<"/", "{path...}">>,
             <<"strip", TrimOne(reg[3]), "sub">> >> \in handlers["root"]
    /\ MountCall(<<"/", "p", "/">>, "sub") = MountCall(<<"/", "p">>, "sub")
    /\ (ToRoot /\ req[2] = <<"/", "p", "/", "a">>
          /\ ~MountedAtP /\ ~MountedAtRoot) => ~PassedToSub

\* Mount("/p/", sub) was the only Mount call that registered something: the
\* parent holds what Mount("/p", sub) registers
C39_Witness ==
    /\ reg = <<"Mount", "root", <<"/", "p", "/">>, "mux", <<"ok", NoErr>> >>
    /\ handlers["root"] =
         { << <<"/", "p", "/", "{path...}">>,
              <<"strip", <<"/", "p">>, "sub">> >> }

\* a request for /p/a is answered NotFound by a parent whose only mount is
\* at "/p//"
C39_WitnessDeep ==
    /\ req = <<"root", <<"/", "p", "/", "a">> >>
    /\ handlers["root"] =
         { << <<"/", "p", "/", "/", "{path...}">>,
              <<"strip", <<"/", "p", "/">>, "sub">> >> }
    /\ trace[Len(trace)][1] = "notfound"

\* the results a Start call can have: none yet, nil, the error of the
\* address, the error of the Start of a servlet
StartResults ==
    {Pending, NoErr, AddrErrMissingPort, AddrErrTooManyColons}
      \cup {StartErr(x) : x \in Components}

\* an engine whose ListenAndServe failed: closed, and not by Shutdown
ListenFailed(e) == engState[e] = "closed" /\ ~inShutdown[e]

(* C40: a failure of ListenAndServe is never the result of Start.  The Start
   call of the engine that failed had returned nil, after the Start of every
   servlet returned nil; the failure ends in the panic of log.Panicln, and
   after it no servlet is stopped, nor anything else done. *)
C40_ListenFailureNotReturned ==
    /\ [](/\ \A c \in StartIds : startRes[c] \in StartResults
          /\ \A e \in StartIds :
                ListenFailed(e) =>
                    /\ panicked
                    /\ Started(e)
                    /\ startLog[e] = StartsOk(startN[e])
          /\ panicked => \E e \in StartIds : ListenFailed(e))
    /\ [][panicked => UNCHANGED << taskLog, startLog, taskPc, stopPc >>]_vars

\* the listen of an engine failed after Start had started two servlets and
\* returned nil; no servlet was stopped
C40_Witness ==
    \E e \in StartIds :
        /\ ListenFailed(e)
        /\ panicked
        /\ startN[e] = 2
        /\ startRes[e] = NoErr
        /\ \A t \in StartIds : taskLog[t] = <<>>

====
